---- MODULE Spec2Model ----
(***************************************************************************)
(* Model of the AgroAssistente query-time pipeline (src/src/core/agent.py) *)
(* and of the three services it wires together: QueryEmbedder,             *)
(* QdrantRetriever, LLMService, plus the prompt helpers.                    *)
(*                                                                         *)
(* Representation of Python values.                                        *)
(*  - A Python str is the sequence of its characters, each a TLA+ string.  *)
(*  - Dynamically typed values are tagged records: None, Str(s), List(l),  *)
(*    PyInt(n), PyFloat(n), Bool(b), the pydantic models SparseVector(..), *)
(*    QueryEmbeddings(..) and Document(..), and json_dumps(obj), the str   *)
(*    that json.dumps produces for obj.                                    *)
(*  - A dict is the record of its keys and carries no tag; the empty dict  *)
(*    is the empty record.                                                 *)
(***************************************************************************)
EXTENDS Integers, Sequences, FiniteSets, TLC

VARIABLES
    st,        \* st[r]: the Agent state dict of pipeline run r
    pc,        \* pc[r]: the node run r executes next, "END", or "RAISED"
    executed,  \* executed[r]: the nodes run r has executed, in order
    calls      \* calls[r]: the collaborator invocations of run r, in order

vars == <<st, pc, executed, calls>>

----------------------------------------------------------------------------
(* Python values *)

None == [t |-> "None"]

Str(s) == [t |-> "str", v |-> s]

List(l) == [t |-> "list", v |-> l]

PyInt(n) == [t |-> "int", n |-> n]

\* The float whose value is the whole number n
PyFloat(n) == [t |-> "float", n |-> n]

Bool(b) == [t |-> "bool", b |-> b]

SparseVector(indices, values) == [t |-> "SparseVector", indices |-> indices, values |-> values]

QueryEmbeddings(d, s) == [t |-> "QueryEmbeddings", dense |-> d, sparse_bm25 |-> s]

Document(text, md) == [t |-> "Document", page_content |-> text, metadata |-> md]

\* isinstance(x, dict): a dict is a record of its keys and carries no tag
IsDict(x) == "t" \notin DOMAIN x

\* bool(x) of Python: None, "", [], {} and 0 are falsy; a pydantic model and
\* the serialisation of a JSON object (at least "{}") are truthy.
Truthy(x) ==
    IF IsDict(x) THEN DOMAIN x # {}
    ELSE CASE x.t = "None" -> FALSE
           [] x.t = "str"  -> Len(x.v) > 0
           [] x.t = "list" -> Len(x.v) > 0
           [] x.t = "int"  -> x.n # 0
           [] x.t = "float" -> x.n # 0
           [] x.t = "bool" -> x.b
           [] OTHER        -> TRUE

\* type(x).__name__
TypeName(x) ==
    IF IsDict(x) THEN <<"d", "i", "c", "t">>
    ELSE CASE x.t = "None" -> <<"N", "o", "n", "e", "T", "y", "p", "e">>
           [] x.t = "str"  -> <<"s", "t", "r">>
           [] x.t = "json" -> <<"s", "t", "r">>
           [] x.t = "list" -> <<"l", "i", "s", "t">>
           [] x.t = "int"  -> <<"i", "n", "t">>
           [] x.t = "float" -> <<"f", "l", "o", "a", "t">>
           [] x.t = "bool" -> <<"b", "o", "o", "l">>
           [] x.t = "SparseVector" -> <<"S", "p", "a", "r", "s", "e", "V", "e", "c", "t", "o",
               "r">>
           [] x.t = "QueryEmbeddings" -> <<"Q", "u", "e", "r", "y", "E", "m", "b", "e", "d",
               "d", "i", "n", "g", "s">>
           [] x.t = "Document" -> <<"D", "o", "c", "u", "m", "e", "n", "t">>

Digits == <<"0", "1", "2", "3", "4", "5", "6", "7", "8", "9">>

IsDigit(c) == \E k \in 1..Len(Digits) : Digits[k] = c

\* int(ds) of a run of digits
RECURSIVE DecimalValue(_)
DecimalValue(ds) ==
    IF ds = <<>> THEN 0
    ELSE DecimalValue(SubSeq(ds, 1, Len(ds) - 1)) * Len(Digits)
           + (CHOOSE k \in 1..Len(Digits) : Digits[k] = ds[Len(ds)]) - 1

\* str(n) of an int
RECURSIVE IntStr(_)
IntStr(n) ==
    IF n < 0 THEN <<"-">> \o IntStr(0 - n)
    ELSE IF n < Len(Digits) THEN <<Digits[n + 1]>>
    ELSE IntStr(n \div Len(Digits)) \o <<Digits[(n % Len(Digits)) + 1]>>

\* dict.get(key, default)
Get(d, key, default) == IF key \in DOMAIN d THEN d[key] ELSE default

----------------------------------------------------------------------------
(* str methods *)

\* A str is the sequence of its characters.  A character is written as
\* itself; one that cannot be written in a module is named by its code point,
\* as in "U+FE0F", and is one character like any other.
\* The properties of the characters are those of Unicode 14.0, the version
\* that Python 3.11 carries.

\* str.isspace() of one character
WhitespaceChars == {
    "\t", "\n", "", "\f", "\r", "", "", "", "", " ", "", " ", " ", "U+2000", "U+2001", "U+2002",
    "U+2003", "U+2004", "U+2005", "U+2006", "U+2007", "U+2008", "U+2009", "U+200A", "U+2028", "U+2029", "U+202F", "U+205F", "U+3000"}

IsSpace(c) == c \in WhitespaceChars

\* The characters str.lower() changes into one other character, in code
\* point order, and what it changes them into.
UpperChars == <<
    "A", "B", "C", "D", "E", "F", "G", "H", "I", "J", "K", "L", "M", "N", "O", "P",
    "Q", "R", "S", "T", "U", "V", "W", "X", "Y", "Z", "À", "Á", "Â", "Ã", "Ä", "Å",
    "Æ", "Ç", "È", "É", "Ê", "Ë", "Ì", "Í", "Î", "Ï", "Ð", "Ñ", "Ò", "Ó", "Ô", "Õ",
    "Ö", "Ø", "Ù", "Ú", "Û", "Ü", "Ý", "Þ", "U+0100", "U+0102", "U+0104", "U+0106", "U+0108", "U+010A", "U+010C", "U+010E",
    "U+0110", "U+0112", "U+0114", "U+0116", "U+0118", "U+011A", "U+011C", "U+011E", "U+0120", "U+0122", "U+0124", "U+0126", "U+0128", "U+012A", "U+012C", "U+012E",
    "U+0132", "U+0134", "U+0136", "U+0139", "U+013B", "U+013D", "U+013F", "U+0141", "U+0143", "U+0145", "U+0147", "U+014A", "U+014C", "U+014E", "U+0150", "U+0152",
    "U+0154", "U+0156", "U+0158", "U+015A", "U+015C", "U+015E", "U+0160", "U+0162", "U+0164", "U+0166", "U+0168", "U+016A", "U+016C", "U+016E", "U+0170", "U+0172",
    "U+0174", "U+0176", "U+0178", "U+0179", "U+017B", "U+017D", "Ɓ", "Ƃ", "Ƅ", "Ɔ", "Ƈ", "Ɖ", "Ɗ", "Ƌ", "Ǝ", "Ə",
    "Ɛ", "Ƒ", "Ɠ", "Ɣ", "Ɩ", "Ɨ", "Ƙ", "Ɯ", "Ɲ", "Ɵ", "Ơ", "Ƣ", "Ƥ", "Ʀ", "Ƨ", "Ʃ",
    "Ƭ", "Ʈ", "Ư", "Ʊ", "Ʋ", "Ƴ", "Ƶ", "Ʒ", "Ƹ", "Ƽ", "Ǆ", "ǅ", "Ǉ", "ǈ", "Ǌ", "ǋ",
    "Ǎ", "Ǐ", "Ǒ", "Ǔ", "Ǖ", "Ǘ", "Ǚ", "Ǜ", "Ǟ", "Ǡ", "Ǣ", "Ǥ", "Ǧ", "Ǩ", "Ǫ", "Ǭ",
    "Ǯ", "Ǳ", "ǲ", "Ǵ", "Ƕ", "Ƿ", "Ǹ", "Ǻ", "Ǽ", "Ǿ", "U+0200", "U+0202", "U+0204", "U+0206", "U+0208", "U+020A",
    "U+020C", "U+020E", "U+0210", "U+0212", "U+0214", "U+0216", "U+0218", "U+021A", "U+021C", "U+021E", "U+0220", "U+0222", "U+0224", "U+0226", "U+0228", "U+022A",
    "U+022C", "U+022E", "U+0230", "U+0232", "U+023A", "U+023B", "U+023D", "U+023E", "U+0241", "U+0243", "U+0244", "U+0245", "U+0246", "U+0248", "U+024A", "U+024C",
    "U+024E", "U+0370", "U+0372", "U+0376", "U+037F", "Ά", "Έ", "Ή", "Ί", "Ό", "Ύ", "Ώ", "Α", "Β", "Γ", "Δ",
    "Ε", "Ζ", "Η", "Θ", "Ι", "Κ", "Λ", "Μ", "Ν", "Ξ", "Ο", "Π", "Ρ", "Τ", "Υ", "Φ",
    "Χ", "Ψ", "Ω", "Ϊ", "Ϋ", "Ϗ", "Ϙ", "Ϛ", "Ϝ", "Ϟ", "Ϡ", "Ϣ", "Ϥ", "Ϧ", "Ϩ", "Ϫ",
    "Ϭ", "Ϯ", "ϴ", "Ϸ", "Ϲ", "Ϻ", "Ͻ", "Ͼ", "Ͽ", "U+0400", "U+0401", "U+0402", "U+0403", "U+0404", "U+0405", "U+0406",
    "U+0407", "U+0408", "U+0409", "U+040A", "U+040B", "U+040C", "U+040D", "U+040E", "U+040F", "U+0410", "U+0411", "U+0412", "U+0413", "U+0414", "U+0415", "U+0416",
    "U+0417", "U+0418", "U+0419", "U+041A", "U+041B", "U+041C", "U+041D", "U+041E", "U+041F", "U+0420", "U+0421", "U+0422", "U+0423", "U+0424", "U+0425", "U+0426",
    "U+0427", "U+0428", "U+0429", "U+042A", "U+042B", "U+042C", "U+042D", "U+042E", "U+042F", "U+0460", "U+0462", "U+0464", "U+0466", "U+0468", "U+046A", "U+046C",
    "U+046E", "U+0470", "U+0472", "U+0474", "U+0476", "U+0478", "U+047A", "U+047C", "U+047E", "Ҁ", "Ҋ", "Ҍ", "Ҏ", "Ґ", "Ғ", "Ҕ",
    "Җ", "Ҙ", "Қ", "Ҝ", "Ҟ", "Ҡ", "Ң", "Ҥ", "Ҧ", "Ҩ", "Ҫ", "Ҭ", "Ү", "Ұ", "Ҳ", "Ҵ",
    "Ҷ", "Ҹ", "Һ", "Ҽ", "Ҿ", "Ӏ", "Ӂ", "Ӄ", "Ӆ", "Ӈ", "Ӊ", "Ӌ", "Ӎ", "Ӑ", "Ӓ", "Ӕ",
    "Ӗ", "Ә", "Ӛ", "Ӝ", "Ӟ", "Ӡ", "Ӣ", "Ӥ", "Ӧ", "Ө", "Ӫ", "Ӭ", "Ӯ", "Ӱ", "Ӳ", "Ӵ",
    "Ӷ", "Ӹ", "Ӻ", "Ӽ", "Ӿ", "U+0500", "U+0502", "U+0504", "U+0506", "U+0508", "U+050A", "U+050C", "U+050E", "U+0510", "U+0512", "U+0514",
    "U+0516", "U+0518", "U+051A", "U+051C", "U+051E", "U+0520", "U+0522", "U+0524", "U+0526", "U+0528", "U+052A", "U+052C", "U+052E", "U+0531", "U+0532", "U+0533",
    "U+0534", "U+0535", "U+0536", "U+0537", "U+0538", "U+0539", "U+053A", "U+053B", "U+053C", "U+053D", "U+053E", "U+053F", "U+0540", "U+0541", "U+0542", "U+0543",
    "U+0544", "U+0545", "U+0546", "U+0547", "U+0548", "U+0549", "U+054A", "U+054B", "U+054C", "U+054D", "U+054E", "U+054F", "U+0550", "U+0551", "U+0552", "U+0553",
    "U+0554", "U+0555", "U+0556", "Ⴀ", "Ⴁ", "Ⴂ", "Ⴃ", "Ⴄ", "Ⴅ", "Ⴆ", "Ⴇ", "Ⴈ", "Ⴉ", "Ⴊ", "Ⴋ", "Ⴌ",
    "Ⴍ", "Ⴎ", "Ⴏ", "Ⴐ", "Ⴑ", "Ⴒ", "Ⴓ", "Ⴔ", "Ⴕ", "Ⴖ", "Ⴗ", "Ⴘ", "Ⴙ", "Ⴚ", "Ⴛ", "Ⴜ",
    "Ⴝ", "Ⴞ", "Ⴟ", "Ⴠ", "Ⴡ", "Ⴢ", "Ⴣ", "Ⴤ", "Ⴥ", "Ⴧ", "Ⴭ", "Ꭰ", "Ꭱ", "Ꭲ", "Ꭳ", "Ꭴ",
    "Ꭵ", "Ꭶ", "Ꭷ", "Ꭸ", "Ꭹ", "Ꭺ", "Ꭻ", "Ꭼ", "Ꭽ", "Ꭾ", "Ꭿ", "Ꮀ", "Ꮁ", "Ꮂ", "Ꮃ", "Ꮄ",
    "Ꮅ", "Ꮆ", "Ꮇ", "Ꮈ", "Ꮉ", "Ꮊ", "Ꮋ", "Ꮌ", "Ꮍ", "Ꮎ", "Ꮏ", "Ꮐ", "Ꮑ", "Ꮒ", "Ꮓ", "Ꮔ",
    "Ꮕ", "Ꮖ", "Ꮗ", "Ꮘ", "Ꮙ", "Ꮚ", "Ꮛ", "Ꮜ", "Ꮝ", "Ꮞ", "Ꮟ", "Ꮠ", "Ꮡ", "Ꮢ", "Ꮣ", "Ꮤ",
    "Ꮥ", "Ꮦ", "Ꮧ", "Ꮨ", "Ꮩ", "Ꮪ", "Ꮫ", "Ꮬ", "Ꮭ", "Ꮮ", "Ꮯ", "Ꮰ", "Ꮱ", "Ꮲ", "Ꮳ", "Ꮴ",
    "Ꮵ", "Ꮶ", "Ꮷ", "Ꮸ", "Ꮹ", "Ꮺ", "Ꮻ", "Ꮼ", "Ꮽ", "Ꮾ", "Ꮿ", "Ᏸ", "Ᏹ", "Ᏺ", "Ᏻ", "Ᏼ",
    "Ᏽ", "Ა", "Ბ", "Გ", "Დ", "Ე", "Ვ", "Ზ", "Თ", "Ი", "Კ", "Ლ", "Მ", "Ნ", "Ო", "Პ",
    "Ჟ", "Რ", "Ს", "Ტ", "Უ", "Ფ", "Ქ", "Ღ", "Ყ", "Შ", "Ჩ", "Ც", "Ძ", "Წ", "Ჭ", "Ხ",
    "Ჯ", "Ჰ", "Ჱ", "Ჲ", "Ჳ", "Ჴ", "Ჵ", "Ჶ", "Ჷ", "Ჸ", "Ჹ", "Ჺ", "Ჽ", "Ჾ", "Ჿ", "U+1E00",
    "U+1E02", "U+1E04", "U+1E06", "U+1E08", "U+1E0A", "U+1E0C", "U+1E0E", "U+1E10", "U+1E12", "U+1E14", "U+1E16", "U+1E18", "U+1E1A", "U+1E1C", "U+1E1E", "U+1E20",
    "U+1E22", "U+1E24", "U+1E26", "U+1E28", "U+1E2A", "U+1E2C", "U+1E2E", "U+1E30", "U+1E32", "U+1E34", "U+1E36", "U+1E38", "U+1E3A", "U+1E3C", "U+1E3E", "U+1E40",
    "U+1E42", "U+1E44", "U+1E46", "U+1E48", "U+1E4A", "U+1E4C", "U+1E4E", "U+1E50", "U+1E52", "U+1E54", "U+1E56", "U+1E58", "U+1E5A", "U+1E5C", "U+1E5E", "U+1E60",
    "U+1E62", "U+1E64", "U+1E66", "U+1E68", "U+1E6A", "U+1E6C", "U+1E6E", "U+1E70", "U+1E72", "U+1E74", "U+1E76", "U+1E78", "U+1E7A", "U+1E7C", "U+1E7E", "Ẁ",
    "Ẃ", "Ẅ", "Ẇ", "Ẉ", "Ẋ", "Ẍ", "Ẏ", "Ẑ", "Ẓ", "Ẕ", "ẞ", "Ạ", "Ả", "Ấ", "Ầ", "Ẩ",
    "Ẫ", "Ậ", "Ắ", "Ằ", "Ẳ", "Ẵ", "Ặ", "Ẹ", "Ẻ", "Ẽ", "Ế", "Ề", "Ể", "Ễ", "Ệ", "Ỉ",
    "Ị", "Ọ", "Ỏ", "Ố", "Ồ", "Ổ", "Ỗ", "Ộ", "Ớ", "Ờ", "Ở", "Ỡ", "Ợ", "Ụ", "Ủ", "Ứ",
    "Ừ", "Ử", "Ữ", "Ự", "Ỳ", "Ỵ", "Ỷ", "Ỹ", "Ỻ", "Ỽ", "Ỿ", "U+1F08", "U+1F09", "U+1F0A", "U+1F0B", "U+1F0C",
    "U+1F0D", "U+1F0E", "U+1F0F", "U+1F18", "U+1F19", "U+1F1A", "U+1F1B", "U+1F1C", "U+1F1D", "U+1F28", "U+1F29", "U+1F2A", "U+1F2B", "U+1F2C", "U+1F2D", "U+1F2E",
    "U+1F2F", "U+1F38", "U+1F39", "U+1F3A", "U+1F3B", "U+1F3C", "U+1F3D", "U+1F3E", "U+1F3F", "U+1F48", "U+1F49", "U+1F4A", "U+1F4B", "U+1F4C", "U+1F4D", "U+1F59",
    "U+1F5B", "U+1F5D", "U+1F5F", "U+1F68", "U+1F69", "U+1F6A", "U+1F6B", "U+1F6C", "U+1F6D", "U+1F6E", "U+1F6F", "ᾈ", "ᾉ", "ᾊ", "ᾋ", "ᾌ",
    "ᾍ", "ᾎ", "ᾏ", "ᾘ", "ᾙ", "ᾚ", "ᾛ", "ᾜ", "ᾝ", "ᾞ", "ᾟ", "ᾨ", "ᾩ", "ᾪ", "ᾫ", "ᾬ",
    "ᾭ", "ᾮ", "ᾯ", "Ᾰ", "Ᾱ", "Ὰ", "Ά", "ᾼ", "Ὲ", "Έ", "Ὴ", "Ή", "ῌ", "Ῐ", "Ῑ", "Ὶ",
    "Ί", "Ῠ", "Ῡ", "Ὺ", "Ύ", "Ῥ", "Ὸ", "Ό", "Ὼ", "Ώ", "ῼ", "U+2126", "U+212A", "U+212B", "U+2132", "U+2160",
    "U+2161", "U+2162", "U+2163", "U+2164", "U+2165", "U+2166", "U+2167", "U+2168", "U+2169", "U+216A", "U+216B", "U+216C", "U+216D", "U+216E", "U+216F", "Ↄ",
    "Ⓐ", "Ⓑ", "Ⓒ", "Ⓓ", "Ⓔ", "Ⓕ", "Ⓖ", "Ⓗ", "Ⓘ", "Ⓙ", "Ⓚ", "Ⓛ", "Ⓜ", "Ⓝ", "Ⓞ", "Ⓟ",
    "Ⓠ", "Ⓡ", "Ⓢ", "Ⓣ", "Ⓤ", "Ⓥ", "Ⓦ", "Ⓧ", "Ⓨ", "Ⓩ", "U+2C00", "U+2C01", "U+2C02", "U+2C03", "U+2C04", "U+2C05",
    "U+2C06", "U+2C07", "U+2C08", "U+2C09", "U+2C0A", "U+2C0B", "U+2C0C", "U+2C0D", "U+2C0E", "U+2C0F", "U+2C10", "U+2C11", "U+2C12", "U+2C13", "U+2C14", "U+2C15",
    "U+2C16", "U+2C17", "U+2C18", "U+2C19", "U+2C1A", "U+2C1B", "U+2C1C", "U+2C1D", "U+2C1E", "U+2C1F", "U+2C20", "U+2C21", "U+2C22", "U+2C23", "U+2C24", "U+2C25",
    "U+2C26", "U+2C27", "U+2C28", "U+2C29", "U+2C2A", "U+2C2B", "U+2C2C", "U+2C2D", "U+2C2E", "U+2C2F", "U+2C60", "U+2C62", "U+2C63", "U+2C64", "U+2C67", "U+2C69",
    "U+2C6B", "U+2C6D", "U+2C6E", "U+2C6F", "U+2C70", "U+2C72", "U+2C75", "U+2C7E", "U+2C7F", "Ⲁ", "Ⲃ", "Ⲅ", "Ⲇ", "Ⲉ", "Ⲋ", "Ⲍ",
    "Ⲏ", "Ⲑ", "Ⲓ", "Ⲕ", "Ⲗ", "Ⲙ", "Ⲛ", "Ⲝ", "Ⲟ", "Ⲡ", "Ⲣ", "Ⲥ", "Ⲧ", "Ⲩ", "Ⲫ", "Ⲭ",
    "Ⲯ", "Ⲱ", "Ⲳ", "Ⲵ", "Ⲷ", "Ⲹ", "Ⲻ", "Ⲽ", "Ⲿ", "Ⳁ", "Ⳃ", "Ⳅ", "Ⳇ", "Ⳉ", "Ⳋ", "Ⳍ",
    "Ⳏ", "Ⳑ", "Ⳓ", "Ⳕ", "Ⳗ", "Ⳙ", "Ⳛ", "Ⳝ", "Ⳟ", "Ⳡ", "Ⳣ", "Ⳬ", "Ⳮ", "Ⳳ", "U+A640", "U+A642",
    "U+A644", "U+A646", "U+A648", "U+A64A", "U+A64C", "U+A64E", "U+A650", "U+A652", "U+A654", "U+A656", "U+A658", "U+A65A", "U+A65C", "U+A65E", "U+A660", "U+A662",
    "U+A664", "U+A666", "U+A668", "U+A66A", "U+A66C", "Ꚁ", "Ꚃ", "Ꚅ", "Ꚇ", "Ꚉ", "Ꚋ", "Ꚍ", "Ꚏ", "Ꚑ", "Ꚓ", "Ꚕ",
    "Ꚗ", "Ꚙ", "Ꚛ", "U+A722", "U+A724", "U+A726", "U+A728", "U+A72A", "U+A72C", "U+A72E", "U+A732", "U+A734", "U+A736", "U+A738", "U+A73A", "U+A73C",
    "U+A73E", "U+A740", "U+A742", "U+A744", "U+A746", "U+A748", "U+A74A", "U+A74C", "U+A74E", "U+A750", "U+A752", "U+A754", "U+A756", "U+A758", "U+A75A", "U+A75C",
    "U+A75E", "U+A760", "U+A762", "U+A764", "U+A766", "U+A768", "U+A76A", "U+A76C", "U+A76E", "U+A779", "U+A77B", "U+A77D", "U+A77E", "Ꞁ", "Ꞃ", "Ꞅ",
    "Ꞇ", "Ꞌ", "Ɥ", "Ꞑ", "Ꞓ", "Ꞗ", "Ꞙ", "Ꞛ", "Ꞝ", "Ꞟ", "Ꞡ", "Ꞣ", "Ꞥ", "Ꞧ", "Ꞩ", "Ɦ",
    "Ɜ", "Ɡ", "Ɬ", "Ɪ", "Ʞ", "Ʇ", "Ʝ", "Ꭓ", "Ꞵ", "Ꞷ", "Ꞹ", "Ꞻ", "Ꞽ", "Ꞿ", "Ꟁ", "Ꟃ",
    "Ꞔ", "Ʂ", "Ᶎ", "Ꟈ", "Ꟊ", "Ꟑ", "Ꟗ", "Ꟙ", "Ꟶ", "U+FF21", "U+FF22", "U+FF23", "U+FF24", "U+FF25", "U+FF26", "U+FF27",
    "U+FF28", "U+FF29", "U+FF2A", "U+FF2B", "U+FF2C", "U+FF2D", "U+FF2E", "U+FF2F", "U+FF30", "U+FF31", "U+FF32", "U+FF33", "U+FF34", "U+FF35", "U+FF36", "U+FF37",
    "U+FF38", "U+FF39", "U+FF3A", "U+10400", "U+10401", "U+10402", "U+10403", "U+10404", "U+10405", "U+10406", "U+10407", "U+10408", "U+10409", "U+1040A", "U+1040B", "U+1040C",
    "U+1040D", "U+1040E", "U+1040F", "U+10410", "U+10411", "U+10412", "U+10413", "U+10414", "U+10415", "U+10416", "U+10417", "U+10418", "U+10419", "U+1041A", "U+1041B", "U+1041C",
    "U+1041D", "U+1041E", "U+1041F", "U+10420", "U+10421", "U+10422", "U+10423", "U+10424", "U+10425", "U+10426", "U+10427", "U+104B0", "U+104B1", "U+104B2", "U+104B3", "U+104B4",
    "U+104B5", "U+104B6", "U+104B7", "U+104B8", "U+104B9", "U+104BA", "U+104BB", "U+104BC", "U+104BD", "U+104BE", "U+104BF", "U+104C0", "U+104C1", "U+104C2", "U+104C3", "U+104C4",
    "U+104C5", "U+104C6", "U+104C7", "U+104C8", "U+104C9", "U+104CA", "U+104CB", "U+104CC", "U+104CD", "U+104CE", "U+104CF", "U+104D0", "U+104D1", "U+104D2", "U+104D3", "U+10570",
    "U+10571", "U+10572", "U+10573", "U+10574", "U+10575", "U+10576", "U+10577", "U+10578", "U+10579", "U+1057A", "U+1057C", "U+1057D", "U+1057E", "U+1057F", "U+10580", "U+10581",
    "U+10582", "U+10583", "U+10584", "U+10585", "U+10586", "U+10587", "U+10588", "U+10589", "U+1058A", "U+1058C", "U+1058D", "U+1058E", "U+1058F", "U+10590", "U+10591", "U+10592",
    "U+10594", "U+10595", "U+10C80", "U+10C81", "U+10C82", "U+10C83", "U+10C84", "U+10C85", "U+10C86", "U+10C87", "U+10C88", "U+10C89", "U+10C8A", "U+10C8B", "U+10C8C", "U+10C8D",
    "U+10C8E", "U+10C8F", "U+10C90", "U+10C91", "U+10C92", "U+10C93", "U+10C94", "U+10C95", "U+10C96", "U+10C97", "U+10C98", "U+10C99", "U+10C9A", "U+10C9B", "U+10C9C", "U+10C9D",
    "U+10C9E", "U+10C9F", "U+10CA0", "U+10CA1", "U+10CA2", "U+10CA3", "U+10CA4", "U+10CA5", "U+10CA6", "U+10CA7", "U+10CA8", "U+10CA9", "U+10CAA", "U+10CAB", "U+10CAC", "U+10CAD",
    "U+10CAE", "U+10CAF", "U+10CB0", "U+10CB1", "U+10CB2", "U+118A0", "U+118A1", "U+118A2", "U+118A3", "U+118A4", "U+118A5", "U+118A6", "U+118A7", "U+118A8", "U+118A9", "U+118AA",
    "U+118AB", "U+118AC", "U+118AD", "U+118AE", "U+118AF", "U+118B0", "U+118B1", "U+118B2", "U+118B3", "U+118B4", "U+118B5", "U+118B6", "U+118B7", "U+118B8", "U+118B9", "U+118BA",
    "U+118BB", "U+118BC", "U+118BD", "U+118BE", "U+118BF", "U+16E40", "U+16E41", "U+16E42", "U+16E43", "U+16E44", "U+16E45", "U+16E46", "U+16E47", "U+16E48", "U+16E49", "U+16E4A",
    "U+16E4B", "U+16E4C", "U+16E4D", "U+16E4E", "U+16E4F", "U+16E50", "U+16E51", "U+16E52", "U+16E53", "U+16E54", "U+16E55", "U+16E56", "U+16E57", "U+16E58", "U+16E59", "U+16E5A",
    "U+16E5B", "U+16E5C", "U+16E5D", "U+16E5E", "U+16E5F", "U+1E900", "U+1E901", "U+1E902", "U+1E903", "U+1E904", "U+1E905", "U+1E906", "U+1E907", "U+1E908", "U+1E909", "U+1E90A",
    "U+1E90B", "U+1E90C", "U+1E90D", "U+1E90E", "U+1E90F", "U+1E910", "U+1E911", "U+1E912", "U+1E913", "U+1E914", "U+1E915", "U+1E916", "U+1E917", "U+1E918", "U+1E919", "U+1E91A",
    "U+1E91B", "U+1E91C", "U+1E91D", "U+1E91E", "U+1E91F", "U+1E920", "U+1E921">>

LowerChars == <<
    "a", "b", "c", "d", "e", "f", "g", "h", "i", "j", "k", "l", "m", "n", "o", "p",
    "q", "r", "s", "t", "u", "v", "w", "x", "y", "z", "à", "á", "â", "ã", "ä", "å",
    "æ", "ç", "è", "é", "ê", "ë", "ì", "í", "î", "ï", "ð", "ñ", "ò", "ó", "ô", "õ",
    "ö", "ø", "ù", "ú", "û", "ü", "ý", "þ", "U+0101", "U+0103", "U+0105", "U+0107", "U+0109", "U+010B", "U+010D", "U+010F",
    "U+0111", "U+0113", "U+0115", "U+0117", "U+0119", "U+011B", "U+011D", "U+011F", "U+0121", "U+0123", "U+0125", "U+0127", "U+0129", "U+012B", "U+012D", "U+012F",
    "U+0133", "U+0135", "U+0137", "U+013A", "U+013C", "U+013E", "U+0140", "U+0142", "U+0144", "U+0146", "U+0148", "U+014B", "U+014D", "U+014F", "U+0151", "U+0153",
    "U+0155", "U+0157", "U+0159", "U+015B", "U+015D", "U+015F", "U+0161", "U+0163", "U+0165", "U+0167", "U+0169", "U+016B", "U+016D", "U+016F", "U+0171", "U+0173",
    "U+0175", "U+0177", "ÿ", "U+017A", "U+017C", "U+017E", "U+0253", "ƃ", "ƅ", "U+0254", "ƈ", "U+0256", "U+0257", "ƌ", "ǝ", "U+0259",
    "U+025B", "ƒ", "U+0260", "U+0263", "U+0269", "U+0268", "ƙ", "U+026F", "U+0272", "U+0275", "ơ", "ƣ", "ƥ", "ʀ", "ƨ", "ʃ",
    "ƭ", "ʈ", "ư", "ʊ", "ʋ", "ƴ", "ƶ", "ʒ", "ƹ", "ƽ", "ǆ", "ǆ", "ǉ", "ǉ", "ǌ", "ǌ",
    "ǎ", "ǐ", "ǒ", "ǔ", "ǖ", "ǘ", "ǚ", "ǜ", "ǟ", "ǡ", "ǣ", "ǥ", "ǧ", "ǩ", "ǫ", "ǭ",
    "ǯ", "ǳ", "ǳ", "ǵ", "ƕ", "ƿ", "ǹ", "ǻ", "ǽ", "ǿ", "U+0201", "U+0203", "U+0205", "U+0207", "U+0209", "U+020B",
    "U+020D", "U+020F", "U+0211", "U+0213", "U+0215", "U+0217", "U+0219", "U+021B", "U+021D", "U+021F", "ƞ", "U+0223", "U+0225", "U+0227", "U+0229", "U+022B",
    "U+022D", "U+022F", "U+0231", "U+0233", "U+2C65", "U+023C", "ƚ", "U+2C66", "U+0242", "ƀ", "ʉ", "ʌ", "U+0247", "U+0249", "U+024B", "U+024D",
    "U+024F", "U+0371", "U+0373", "U+0377", "ϳ", "ά", "έ", "ή", "ί", "ό", "ύ", "ώ", "α", "β", "γ", "δ",
    "ε", "ζ", "η", "θ", "ι", "κ", "λ", "μ", "ν", "ξ", "ο", "π", "ρ", "τ", "υ", "φ",
    "χ", "ψ", "ω", "ϊ", "ϋ", "ϗ", "ϙ", "ϛ", "ϝ", "ϟ", "ϡ", "ϣ", "ϥ", "ϧ", "ϩ", "ϫ",
    "ϭ", "ϯ", "θ", "ϸ", "ϲ", "ϻ", "U+037B", "U+037C", "U+037D", "U+0450", "U+0451", "U+0452", "U+0453", "U+0454", "U+0455", "U+0456",
    "U+0457", "U+0458", "U+0459", "U+045A", "U+045B", "U+045C", "U+045D", "U+045E", "U+045F", "U+0430", "U+0431", "U+0432", "U+0433", "U+0434", "U+0435", "U+0436",
    "U+0437", "U+0438", "U+0439", "U+043A", "U+043B", "U+043C", "U+043D", "U+043E", "U+043F", "U+0440", "U+0441", "U+0442", "U+0443", "U+0444", "U+0445", "U+0446",
    "U+0447", "U+0448", "U+0449", "U+044A", "U+044B", "U+044C", "U+044D", "U+044E", "U+044F", "U+0461", "U+0463", "U+0465", "U+0467", "U+0469", "U+046B", "U+046D",
    "U+046F", "U+0471", "U+0473", "U+0475", "U+0477", "U+0479", "U+047B", "U+047D", "U+047F", "ҁ", "ҋ", "ҍ", "ҏ", "ґ", "ғ", "ҕ",
    "җ", "ҙ", "қ", "ҝ", "ҟ", "ҡ", "ң", "ҥ", "ҧ", "ҩ", "ҫ", "ҭ", "ү", "ұ", "ҳ", "ҵ",
    "ҷ", "ҹ", "һ", "ҽ", "ҿ", "ӏ", "ӂ", "ӄ", "ӆ", "ӈ", "ӊ", "ӌ", "ӎ", "ӑ", "ӓ", "ӕ",
    "ӗ", "ә", "ӛ", "ӝ", "ӟ", "ӡ", "ӣ", "ӥ", "ӧ", "ө", "ӫ", "ӭ", "ӯ", "ӱ", "ӳ", "ӵ",
    "ӷ", "ӹ", "ӻ", "ӽ", "ӿ", "U+0501", "U+0503", "U+0505", "U+0507", "U+0509", "U+050B", "U+050D", "U+050F", "U+0511", "U+0513", "U+0515",
    "U+0517", "U+0519", "U+051B", "U+051D", "U+051F", "U+0521", "U+0523", "U+0525", "U+0527", "U+0529", "U+052B", "U+052D", "U+052F", "U+0561", "U+0562", "U+0563",
    "U+0564", "U+0565", "U+0566", "U+0567", "U+0568", "U+0569", "U+056A", "U+056B", "U+056C", "U+056D", "U+056E", "U+056F", "U+0570", "U+0571", "U+0572", "U+0573",
    "U+0574", "U+0575", "U+0576", "U+0577", "U+0578", "U+0579", "U+057A", "U+057B", "U+057C", "U+057D", "U+057E", "U+057F", "ր", "ց", "ւ", "փ",
    "ք", "օ", "ֆ", "U+2D00", "U+2D01", "U+2D02", "U+2D03", "U+2D04", "U+2D05", "U+2D06", "U+2D07", "U+2D08", "U+2D09", "U+2D0A", "U+2D0B", "U+2D0C",
    "U+2D0D", "U+2D0E", "U+2D0F", "U+2D10", "U+2D11", "U+2D12", "U+2D13", "U+2D14", "U+2D15", "U+2D16", "U+2D17", "U+2D18", "U+2D19", "U+2D1A", "U+2D1B", "U+2D1C",
    "U+2D1D", "U+2D1E", "U+2D1F", "U+2D20", "U+2D21", "U+2D22", "U+2D23", "U+2D24", "U+2D25", "U+2D27", "U+2D2D", "U+AB70", "U+AB71", "U+AB72", "U+AB73", "U+AB74",
    "U+AB75", "U+AB76", "U+AB77", "U+AB78", "U+AB79", "U+AB7A", "U+AB7B", "U+AB7C", "U+AB7D", "U+AB7E", "U+AB7F", "ꮀ", "ꮁ", "ꮂ", "ꮃ", "ꮄ",
    "ꮅ", "ꮆ", "ꮇ", "ꮈ", "ꮉ", "ꮊ", "ꮋ", "ꮌ", "ꮍ", "ꮎ", "ꮏ", "ꮐ", "ꮑ", "ꮒ", "ꮓ", "ꮔ",
    "ꮕ", "ꮖ", "ꮗ", "ꮘ", "ꮙ", "ꮚ", "ꮛ", "ꮜ", "ꮝ", "ꮞ", "ꮟ", "ꮠ", "ꮡ", "ꮢ", "ꮣ", "ꮤ",
    "ꮥ", "ꮦ", "ꮧ", "ꮨ", "ꮩ", "ꮪ", "ꮫ", "ꮬ", "ꮭ", "ꮮ", "ꮯ", "ꮰ", "ꮱ", "ꮲ", "ꮳ", "ꮴ",
    "ꮵ", "ꮶ", "ꮷ", "ꮸ", "ꮹ", "ꮺ", "ꮻ", "ꮼ", "ꮽ", "ꮾ", "ꮿ", "ᏸ", "ᏹ", "ᏺ", "ᏻ", "ᏼ",
    "ᏽ", "ა", "ბ", "გ", "დ", "ე", "ვ", "ზ", "თ", "ი", "კ", "ლ", "მ", "ნ", "ო", "პ",
    "ჟ", "რ", "ს", "ტ", "უ", "ფ", "ქ", "ღ", "ყ", "შ", "ჩ", "ც", "ძ", "წ", "ჭ", "ხ",
    "ჯ", "ჰ", "ჱ", "ჲ", "ჳ", "ჴ", "ჵ", "ჶ", "ჷ", "ჸ", "ჹ", "ჺ", "ჽ", "ჾ", "ჿ", "U+1E01",
    "U+1E03", "U+1E05", "U+1E07", "U+1E09", "U+1E0B", "U+1E0D", "U+1E0F", "U+1E11", "U+1E13", "U+1E15", "U+1E17", "U+1E19", "U+1E1B", "U+1E1D", "U+1E1F", "U+1E21",
    "U+1E23", "U+1E25", "U+1E27", "U+1E29", "U+1E2B", "U+1E2D", "U+1E2F", "U+1E31", "U+1E33", "U+1E35", "U+1E37", "U+1E39", "U+1E3B", "U+1E3D", "U+1E3F", "U+1E41",
    "U+1E43", "U+1E45", "U+1E47", "U+1E49", "U+1E4B", "U+1E4D", "U+1E4F", "U+1E51", "U+1E53", "U+1E55", "U+1E57", "U+1E59", "U+1E5B", "U+1E5D", "U+1E5F", "U+1E61",
    "U+1E63", "U+1E65", "U+1E67", "U+1E69", "U+1E6B", "U+1E6D", "U+1E6F", "U+1E71", "U+1E73", "U+1E75", "U+1E77", "U+1E79", "U+1E7B", "U+1E7D", "U+1E7F", "ẁ",
    "ẃ", "ẅ", "ẇ", "ẉ", "ẋ", "ẍ", "ẏ", "ẑ", "ẓ", "ẕ", "ß", "ạ", "ả", "ấ", "ầ", "ẩ",
    "ẫ", "ậ", "ắ", "ằ", "ẳ", "ẵ", "ặ", "ẹ", "ẻ", "ẽ", "ế", "ề", "ể", "ễ", "ệ", "ỉ",
    "ị", "ọ", "ỏ", "ố", "ồ", "ổ", "ỗ", "ộ", "ớ", "ờ", "ở", "ỡ", "ợ", "ụ", "ủ", "ứ",
    "ừ", "ử", "ữ", "ự", "ỳ", "ỵ", "ỷ", "ỹ", "ỻ", "ỽ", "ỿ", "U+1F00", "U+1F01", "U+1F02", "U+1F03", "U+1F04",
    "U+1F05", "U+1F06", "U+1F07", "U+1F10", "U+1F11", "U+1F12", "U+1F13", "U+1F14", "U+1F15", "U+1F20", "U+1F21", "U+1F22", "U+1F23", "U+1F24", "U+1F25", "U+1F26",
    "U+1F27", "U+1F30", "U+1F31", "U+1F32", "U+1F33", "U+1F34", "U+1F35", "U+1F36", "U+1F37", "U+1F40", "U+1F41", "U+1F42", "U+1F43", "U+1F44", "U+1F45", "U+1F51",
    "U+1F53", "U+1F55", "U+1F57", "U+1F60", "U+1F61", "U+1F62", "U+1F63", "U+1F64", "U+1F65", "U+1F66", "U+1F67", "ᾀ", "ᾁ", "ᾂ", "ᾃ", "ᾄ",
    "ᾅ", "ᾆ", "ᾇ", "ᾐ", "ᾑ", "ᾒ", "ᾓ", "ᾔ", "ᾕ", "ᾖ", "ᾗ", "ᾠ", "ᾡ", "ᾢ", "ᾣ", "ᾤ",
    "ᾥ", "ᾦ", "ᾧ", "ᾰ", "ᾱ", "U+1F70", "U+1F71", "ᾳ", "U+1F72", "U+1F73", "U+1F74", "U+1F75", "ῃ", "ῐ", "ῑ", "U+1F76",
    "U+1F77", "ῠ", "ῡ", "U+1F7A", "U+1F7B", "ῥ", "U+1F78", "U+1F79", "U+1F7C", "U+1F7D", "ῳ", "ω", "k", "å", "U+214E", "U+2170",
    "U+2171", "U+2172", "U+2173", "U+2174", "U+2175", "U+2176", "U+2177", "U+2178", "U+2179", "U+217A", "U+217B", "U+217C", "U+217D", "U+217E", "U+217F", "ↄ",
    "ⓐ", "ⓑ", "ⓒ", "ⓓ", "ⓔ", "ⓕ", "ⓖ", "ⓗ", "ⓘ", "ⓙ", "ⓚ", "ⓛ", "ⓜ", "ⓝ", "ⓞ", "ⓟ",
    "ⓠ", "ⓡ", "ⓢ", "ⓣ", "ⓤ", "ⓥ", "ⓦ", "ⓧ", "ⓨ", "ⓩ", "U+2C30", "U+2C31", "U+2C32", "U+2C33", "U+2C34", "U+2C35",
    "U+2C36", "U+2C37", "U+2C38", "U+2C39", "U+2C3A", "U+2C3B", "U+2C3C", "U+2C3D", "U+2C3E", "U+2C3F", "U+2C40", "U+2C41", "U+2C42", "U+2C43", "U+2C44", "U+2C45",
    "U+2C46", "U+2C47", "U+2C48", "U+2C49", "U+2C4A", "U+2C4B", "U+2C4C", "U+2C4D", "U+2C4E", "U+2C4F", "U+2C50", "U+2C51", "U+2C52", "U+2C53", "U+2C54", "U+2C55",
    "U+2C56", "U+2C57", "U+2C58", "U+2C59", "U+2C5A", "U+2C5B", "U+2C5C", "U+2C5D", "U+2C5E", "U+2C5F", "U+2C61", "U+026B", "U+1D7D", "U+027D", "U+2C68", "U+2C6A",
    "U+2C6C", "U+0251", "U+0271", "U+0250", "U+0252", "U+2C73", "U+2C76", "U+023F", "U+0240", "ⲁ", "ⲃ", "ⲅ", "ⲇ", "ⲉ", "ⲋ", "ⲍ",
    "ⲏ", "ⲑ", "ⲓ", "ⲕ", "ⲗ", "ⲙ", "ⲛ", "ⲝ", "ⲟ", "ⲡ", "ⲣ", "ⲥ", "ⲧ", "ⲩ", "ⲫ", "ⲭ",
    "ⲯ", "ⲱ", "ⲳ", "ⲵ", "ⲷ", "ⲹ", "ⲻ", "ⲽ", "ⲿ", "ⳁ", "ⳃ", "ⳅ", "ⳇ", "ⳉ", "ⳋ", "ⳍ",
    "ⳏ", "ⳑ", "ⳓ", "ⳕ", "ⳗ", "ⳙ", "ⳛ", "ⳝ", "ⳟ", "ⳡ", "ⳣ", "ⳬ", "ⳮ", "ⳳ", "U+A641", "U+A643",
    "U+A645", "U+A647", "U+A649", "U+A64B", "U+A64D", "U+A64F", "U+A651", "U+A653", "U+A655", "U+A657", "U+A659", "U+A65B", "U+A65D", "U+A65F", "U+A661", "U+A663",
    "U+A665", "U+A667", "U+A669", "U+A66B", "U+A66D", "ꚁ", "ꚃ", "ꚅ", "ꚇ", "ꚉ", "ꚋ", "ꚍ", "ꚏ", "ꚑ", "ꚓ", "ꚕ",
    "ꚗ", "ꚙ", "ꚛ", "U+A723", "U+A725", "U+A727", "U+A729", "U+A72B", "U+A72D", "U+A72F", "U+A733", "U+A735", "U+A737", "U+A739", "U+A73B", "U+A73D",
    "U+A73F", "U+A741", "U+A743", "U+A745", "U+A747", "U+A749", "U+A74B", "U+A74D", "U+A74F", "U+A751", "U+A753", "U+A755", "U+A757", "U+A759", "U+A75B", "U+A75D",
    "U+A75F", "U+A761", "U+A763", "U+A765", "U+A767", "U+A769", "U+A76B", "U+A76D", "U+A76F", "U+A77A", "U+A77C", "U+1D79", "U+A77F", "ꞁ", "ꞃ", "ꞅ",
    "ꞇ", "ꞌ", "U+0265", "ꞑ", "ꞓ", "ꞗ", "ꞙ", "ꞛ", "ꞝ", "ꞟ", "ꞡ", "ꞣ", "ꞥ", "ꞧ", "ꞩ", "U+0266",
    "U+025C", "U+0261", "U+026C", "U+026A", "ʞ", "ʇ", "ʝ", "U+AB53", "ꞵ", "ꞷ", "ꞹ", "ꞻ", "ꞽ", "ꞿ", "ꟁ", "ꟃ",
    "ꞔ", "ʂ", "ᶎ", "ꟈ", "ꟊ", "ꟑ", "ꟗ", "ꟙ", "ꟶ", "U+FF41", "U+FF42", "U+FF43", "U+FF44", "U+FF45", "U+FF46", "U+FF47",
    "U+FF48", "U+FF49", "U+FF4A", "U+FF4B", "U+FF4C", "U+FF4D", "U+FF4E", "U+FF4F", "U+FF50", "U+FF51", "U+FF52", "U+FF53", "U+FF54", "U+FF55", "U+FF56", "U+FF57",
    "U+FF58", "U+FF59", "U+FF5A", "U+10428", "U+10429", "U+1042A", "U+1042B", "U+1042C", "U+1042D", "U+1042E", "U+1042F", "U+10430", "U+10431", "U+10432", "U+10433", "U+10434",
    "U+10435", "U+10436", "U+10437", "U+10438", "U+10439", "U+1043A", "U+1043B", "U+1043C", "U+1043D", "U+1043E", "U+1043F", "U+10440", "U+10441", "U+10442", "U+10443", "U+10444",
    "U+10445", "U+10446", "U+10447", "U+10448", "U+10449", "U+1044A", "U+1044B", "U+1044C", "U+1044D", "U+1044E", "U+1044F", "U+104D8", "U+104D9", "U+104DA", "U+104DB", "U+104DC",
    "U+104DD", "U+104DE", "U+104DF", "U+104E0", "U+104E1", "U+104E2", "U+104E3", "U+104E4", "U+104E5", "U+104E6", "U+104E7", "U+104E8", "U+104E9", "U+104EA", "U+104EB", "U+104EC",
    "U+104ED", "U+104EE", "U+104EF", "U+104F0", "U+104F1", "U+104F2", "U+104F3", "U+104F4", "U+104F5", "U+104F6", "U+104F7", "U+104F8", "U+104F9", "U+104FA", "U+104FB", "U+10597",
    "U+10598", "U+10599", "U+1059A", "U+1059B", "U+1059C", "U+1059D", "U+1059E", "U+1059F", "U+105A0", "U+105A1", "U+105A3", "U+105A4", "U+105A5", "U+105A6", "U+105A7", "U+105A8",
    "U+105A9", "U+105AA", "U+105AB", "U+105AC", "U+105AD", "U+105AE", "U+105AF", "U+105B0", "U+105B1", "U+105B3", "U+105B4", "U+105B5", "U+105B6", "U+105B7", "U+105B8", "U+105B9",
    "U+105BB", "U+105BC", "U+10CC0", "U+10CC1", "U+10CC2", "U+10CC3", "U+10CC4", "U+10CC5", "U+10CC6", "U+10CC7", "U+10CC8", "U+10CC9", "U+10CCA", "U+10CCB", "U+10CCC", "U+10CCD",
    "U+10CCE", "U+10CCF", "U+10CD0", "U+10CD1", "U+10CD2", "U+10CD3", "U+10CD4", "U+10CD5", "U+10CD6", "U+10CD7", "U+10CD8", "U+10CD9", "U+10CDA", "U+10CDB", "U+10CDC", "U+10CDD",
    "U+10CDE", "U+10CDF", "U+10CE0", "U+10CE1", "U+10CE2", "U+10CE3", "U+10CE4", "U+10CE5", "U+10CE6", "U+10CE7", "U+10CE8", "U+10CE9", "U+10CEA", "U+10CEB", "U+10CEC", "U+10CED",
    "U+10CEE", "U+10CEF", "U+10CF0", "U+10CF1", "U+10CF2", "U+118C0", "U+118C1", "U+118C2", "U+118C3", "U+118C4", "U+118C5", "U+118C6", "U+118C7", "U+118C8", "U+118C9", "U+118CA",
    "U+118CB", "U+118CC", "U+118CD", "U+118CE", "U+118CF", "U+118D0", "U+118D1", "U+118D2", "U+118D3", "U+118D4", "U+118D5", "U+118D6", "U+118D7", "U+118D8", "U+118D9", "U+118DA",
    "U+118DB", "U+118DC", "U+118DD", "U+118DE", "U+118DF", "U+16E60", "U+16E61", "U+16E62", "U+16E63", "U+16E64", "U+16E65", "U+16E66", "U+16E67", "U+16E68", "U+16E69", "U+16E6A",
    "U+16E6B", "U+16E6C", "U+16E6D", "U+16E6E", "U+16E6F", "U+16E70", "U+16E71", "U+16E72", "U+16E73", "U+16E74", "U+16E75", "U+16E76", "U+16E77", "U+16E78", "U+16E79", "U+16E7A",
    "U+16E7B", "U+16E7C", "U+16E7D", "U+16E7E", "U+16E7F", "U+1E922", "U+1E923", "U+1E924", "U+1E925", "U+1E926", "U+1E927", "U+1E928", "U+1E929", "U+1E92A", "U+1E92B", "U+1E92C",
    "U+1E92D", "U+1E92E", "U+1E92F", "U+1E930", "U+1E931", "U+1E932", "U+1E933", "U+1E934", "U+1E935", "U+1E936", "U+1E937", "U+1E938", "U+1E939", "U+1E93A", "U+1E93B", "U+1E93C",
    "U+1E93D", "U+1E93E", "U+1E93F", "U+1E940", "U+1E941", "U+1E942", "U+1E943">>

LowerMap ==
    [c \in {UpperChars[k] : k \in 1..Len(UpperChars)} |->
        LowerChars[CHOOSE k \in 1..Len(UpperChars) : UpperChars[k] = c]]

\* The characters the Final_Sigma context skips (Case_Ignorable).
CaseIgnorableChars == {
    "'", ".", ":", "^", "U+0060", "¨", "­", "¯", "´", "·", "¸", "ʰ", "ʱ", "ʲ", "ʳ", "ʴ",
    "ʵ", "ʶ", "ʷ", "ʸ", "ʹ", "ʺ", "ʻ", "ʼ", "ʽ", "ʾ", "ʿ", "ˀ", "ˁ", "˂", "˃", "˄",
    "˅", "ˆ", "ˇ", "ˈ", "ˉ", "ˊ", "ˋ", "ˌ", "ˍ", "ˎ", "ˏ", "ː", "ˑ", "˒", "˓", "˔",
    "˕", "˖", "˗", "˘", "˙", "˚", "˛", "˜", "˝", "˞", "˟", "ˠ", "ˡ", "ˢ", "ˣ", "ˤ",
    "˥", "˦", "˧", "˨", "˩", "˪", "˫", "ˬ", "˭", "ˮ", "˯", "˰", "˱", "˲", "˳", "˴",
    "˵", "˶", "˷", "˸", "˹", "˺", "˻", "˼", "˽", "˾", "˿", "U+0300", "U+0301", "U+0302", "U+0303", "U+0304",
    "U+0305", "U+0306", "U+0307", "U+0308", "U+0309", "U+030A", "U+030B", "U+030C", "U+030D", "U+030E", "U+030F", "U+0310", "U+0311", "U+0312", "U+0313", "U+0314",
    "U+0315", "U+0316", "U+0317", "U+0318", "U+0319", "U+031A", "U+031B", "U+031C", "U+031D", "U+031E", "U+031F", "U+0320", "U+0321", "U+0322", "U+0323", "U+0324",
    "U+0325", "U+0326", "U+0327", "U+0328", "U+0329", "U+032A", "U+032B", "U+032C", "U+032D", "U+032E", "U+032F", "U+0330", "U+0331", "U+0332", "U+0333", "U+0334",
    "U+0335", "U+0336", "U+0337", "U+0338", "U+0339", "U+033A", "U+033B", "U+033C", "U+033D", "U+033E", "U+033F", "U+0340", "U+0341", "U+0342", "U+0343", "U+0344",
    "U+0345", "U+0346", "U+0347", "U+0348", "U+0349", "U+034A", "U+034B", "U+034C", "U+034D", "U+034E", "U+034F", "U+0350", "U+0351", "U+0352", "U+0353", "U+0354",
    "U+0355", "U+0356", "U+0357", "U+0358", "U+0359", "U+035A", "U+035B", "U+035C", "U+035D", "U+035E", "U+035F", "U+0360", "U+0361", "U+0362", "U+0363", "U+0364",
    "U+0365", "U+0366", "U+0367", "U+0368", "U+0369", "U+036A", "U+036B", "U+036C", "U+036D", "U+036E", "U+036F", "U+0374", "U+0375", "U+037A", "΄", "΅",
    "·", "҃", "҄", "҅", "҆", "҇", "҈", "҉", "U+0559", "U+055F", "֑", "֒", "֓", "֔", "֕", "֖",
    "֗", "֘", "֙", "֚", "֛", "֜", "֝", "֞", "֟", "֠", "֡", "֢", "֣", "֤", "֥", "֦",
    "֧", "֨", "֩", "֪", "֫", "֬", "֭", "֮", "֯", "ְ", "ֱ", "ֲ", "ֳ", "ִ", "ֵ", "ֶ",
    "ַ", "ָ", "ֹ", "ֺ", "ֻ", "ּ", "ֽ", "ֿ", "ׁ", "ׂ", "ׄ", "ׅ", "ׇ", "״", "U+0600", "U+0601",
    "U+0602", "U+0603", "U+0604", "U+0605", "U+0610", "U+0611", "U+0612", "U+0613", "U+0614", "U+0615", "U+0616", "U+0617", "U+0618", "U+0619", "U+061A", "U+061C",
    "U+0640", "U+064B", "U+064C", "U+064D", "U+064E", "U+064F", "U+0650", "U+0651", "U+0652", "U+0653", "U+0654", "U+0655", "U+0656", "U+0657", "U+0658", "U+0659",
    "U+065A", "U+065B", "U+065C", "U+065D", "U+065E", "U+065F", "U+0670", "ۖ", "ۗ", "ۘ", "ۙ", "ۚ", "ۛ", "ۜ", "۝", "۟",
    "۠", "ۡ", "ۢ", "ۣ", "ۤ", "ۥ", "ۦ", "ۧ", "ۨ", "۪", "۫", "۬", "ۭ", "U+070F", "U+0711", "U+0730",
    "U+0731", "U+0732", "U+0733", "U+0734", "U+0735", "U+0736", "U+0737", "U+0738", "U+0739", "U+073A", "U+073B", "U+073C", "U+073D", "U+073E", "U+073F", "U+0740",
    "U+0741", "U+0742", "U+0743", "U+0744", "U+0745", "U+0746", "U+0747", "U+0748", "U+0749", "U+074A", "ަ", "ާ", "ި", "ީ", "ު", "ޫ",
    "ެ", "ޭ", "ޮ", "ޯ", "ް", "߫", "߬", "߭", "߮", "߯", "߰", "߱", "߲", "߳", "ߴ", "ߵ",
    "ߺ", "߽", "U+0816", "U+0817", "U+0818", "U+0819", "U+081A", "U+081B", "U+081C", "U+081D", "U+081E", "U+081F", "U+0820", "U+0821", "U+0822", "U+0823",
    "U+0824", "U+0825", "U+0826", "U+0827", "U+0828", "U+0829", "U+082A", "U+082B", "U+082C", "U+082D", "U+0859", "U+085A", "U+085B", "࢈", "࢐", "࢑",
    "࢘", "࢙", "࢚", "࢛", "࢜", "࢝", "࢞", "࢟", "ࣉ", "࣊", "࣋", "࣌", "࣍", "࣎", "࣏", "࣐",
    "࣑", "࣒", "࣓", "ࣔ", "ࣕ", "ࣖ", "ࣗ", "ࣘ", "ࣙ", "ࣚ", "ࣛ", "ࣜ", "ࣝ", "ࣞ", "ࣟ", "࣠",
    "࣡", "࣢", "ࣣ", "ࣤ", "ࣥ", "ࣦ", "ࣧ", "ࣨ", "ࣩ", "࣪", "࣫", "࣬", "࣭", "࣮", "࣯", "ࣰ",
    "ࣱ", "ࣲ", "ࣳ", "ࣴ", "ࣵ", "ࣶ", "ࣷ", "ࣸ", "ࣹ", "ࣺ", "ࣻ", "ࣼ", "ࣽ", "ࣾ", "ࣿ", "U+0900",
    "U+0901", "U+0902", "U+093A", "U+093C", "U+0941", "U+0942", "U+0943", "U+0944", "U+0945", "U+0946", "U+0947", "U+0948", "U+094D", "U+0951", "U+0952", "U+0953",
    "U+0954", "U+0955", "U+0956", "U+0957", "U+0962", "U+0963", "U+0971", "ঁ", "়", "ু", "ূ", "ৃ", "ৄ", "্", "ৢ", "ৣ",
    "৾", "U+0A01", "U+0A02", "U+0A3C", "U+0A41", "U+0A42", "U+0A47", "U+0A48", "U+0A4B", "U+0A4C", "U+0A4D", "U+0A51", "U+0A70", "U+0A71", "U+0A75", "ઁ",
    "ં", "઼", "ુ", "ૂ", "ૃ", "ૄ", "ૅ", "ે", "ૈ", "્", "ૢ", "ૣ", "ૺ", "ૻ", "ૼ", "૽",
    "૾", "૿", "U+0B01", "U+0B3C", "U+0B3F", "U+0B41", "U+0B42", "U+0B43", "U+0B44", "U+0B4D", "U+0B55", "U+0B56", "U+0B62", "U+0B63", "ஂ", "ீ",
    "்", "U+0C00", "U+0C04", "U+0C3C", "U+0C3E", "U+0C3F", "U+0C40", "U+0C46", "U+0C47", "U+0C48", "U+0C4A", "U+0C4B", "U+0C4C", "U+0C4D", "U+0C55", "U+0C56",
    "U+0C62", "U+0C63", "ಁ", "಼", "ಿ", "ೆ", "ೌ", "್", "ೢ", "ೣ", "U+0D00", "U+0D01", "U+0D3B", "U+0D3C", "U+0D41", "U+0D42",
    "U+0D43", "U+0D44", "U+0D4D", "U+0D62", "U+0D63", "ඁ", "්", "ි", "ී", "ු", "ූ", "U+0E31", "U+0E34", "U+0E35", "U+0E36", "U+0E37",
    "U+0E38", "U+0E39", "U+0E3A", "U+0E46", "U+0E47", "U+0E48", "U+0E49", "U+0E4A", "U+0E4B", "U+0E4C", "U+0E4D", "U+0E4E", "ັ", "ິ", "ີ", "ຶ",
    "ື", "ຸ", "ູ", "຺", "ົ", "ຼ", "ໆ", "່", "້", "໊", "໋", "໌", "ໍ", "U+0F18", "U+0F19", "U+0F35",
    "U+0F37", "U+0F39", "U+0F71", "U+0F72", "U+0F73", "U+0F74", "U+0F75", "U+0F76", "U+0F77", "U+0F78", "U+0F79", "U+0F7A", "U+0F7B", "U+0F7C", "U+0F7D", "U+0F7E",
    "ྀ", "ཱྀ", "ྂ", "ྃ", "྄", "྆", "྇", "ྍ", "ྎ", "ྏ", "ྐ", "ྑ", "ྒ", "ྒྷ", "ྔ", "ྕ",
    "ྖ", "ྗ", "ྙ", "ྚ", "ྛ", "ྜ", "ྜྷ", "ྞ", "ྟ", "ྠ", "ྡ", "ྡྷ", "ྣ", "ྤ", "ྥ", "ྦ",
    "ྦྷ", "ྨ", "ྩ", "ྪ", "ྫ", "ྫྷ", "ྭ", "ྮ", "ྯ", "ྰ", "ྱ", "ྲ", "ླ", "ྴ", "ྵ", "ྶ",
    "ྷ", "ྸ", "ྐྵ", "ྺ", "ྻ", "ྼ", "࿆", "U+102D", "U+102E", "U+102F", "U+1030", "U+1032", "U+1033", "U+1034", "U+1035", "U+1036",
    "U+1037", "U+1039", "U+103A", "U+103D", "U+103E", "U+1058", "U+1059", "U+105E", "U+105F", "U+1060", "U+1071", "U+1072", "U+1073", "U+1074", "ႂ", "ႅ",
    "ႆ", "ႍ", "ႝ", "ჼ", "U+135D", "U+135E", "U+135F", "U+1712", "U+1713", "U+1714", "U+1732", "U+1733", "U+1752", "U+1753", "U+1772", "U+1773",
    "឴", "឵", "ិ", "ី", "ឹ", "ឺ", "ុ", "ូ", "ួ", "ំ", "៉", "៊", "់", "៌", "៍", "៎",
    "៏", "័", "៑", "្", "៓", "ៗ", "៝", "U+180B", "U+180C", "U+180D", "U+180E", "U+180F", "U+1843", "ᢅ", "ᢆ", "ᢩ",
    "U+1920", "U+1921", "U+1922", "U+1927", "U+1928", "U+1932", "U+1939", "U+193A", "U+193B", "U+1A17", "U+1A18", "U+1A1B", "U+1A56", "U+1A58", "U+1A59", "U+1A5A",
    "U+1A5B", "U+1A5C", "U+1A5D", "U+1A5E", "U+1A60", "U+1A62", "U+1A65", "U+1A66", "U+1A67", "U+1A68", "U+1A69", "U+1A6A", "U+1A6B", "U+1A6C", "U+1A73", "U+1A74",
    "U+1A75", "U+1A76", "U+1A77", "U+1A78", "U+1A79", "U+1A7A", "U+1A7B", "U+1A7C", "U+1A7F", "ᪧ", "᪰", "᪱", "᪲", "᪳", "᪴", "᪵",
    "᪶", "᪷", "᪸", "᪹", "᪺", "᪻", "᪼", "᪽", "᪾", "ᪿ", "ᫀ", "᫁", "᫂", "᫃", "᫄", "᫅",
    "᫆", "᫇", "᫈", "᫉", "᫊", "᫋", "ᫌ", "ᫍ", "ᫎ", "U+1B00", "U+1B01", "U+1B02", "U+1B03", "U+1B34", "U+1B36", "U+1B37",
    "U+1B38", "U+1B39", "U+1B3A", "U+1B3C", "U+1B42", "U+1B6B", "U+1B6C", "U+1B6D", "U+1B6E", "U+1B6F", "U+1B70", "U+1B71", "U+1B72", "U+1B73", "ᮀ", "ᮁ",
    "ᮢ", "ᮣ", "ᮤ", "ᮥ", "ᮨ", "ᮩ", "᮫", "ᮬ", "ᮭ", "᯦", "ᯨ", "ᯩ", "ᯭ", "ᯯ", "ᯰ", "ᯱ",
    "U+1C2C", "U+1C2D", "U+1C2E", "U+1C2F", "U+1C30", "U+1C31", "U+1C32", "U+1C33", "U+1C36", "U+1C37", "U+1C78", "U+1C79", "U+1C7A", "U+1C7B", "U+1C7C", "U+1C7D",
    "᳐", "᳑", "᳒", "᳔", "᳕", "᳖", "᳗", "᳘", "᳙", "᳚", "᳛", "᳜", "᳝", "᳞", "᳟", "᳠",
    "᳢", "᳣", "᳤", "᳥", "᳦", "᳧", "᳨", "᳭", "᳴", "᳸", "᳹", "U+1D2C", "U+1D2D", "U+1D2E", "U+1D2F", "U+1D30",
    "U+1D31", "U+1D32", "U+1D33", "U+1D34", "U+1D35", "U+1D36", "U+1D37", "U+1D38", "U+1D39", "U+1D3A", "U+1D3B", "U+1D3C", "U+1D3D", "U+1D3E", "U+1D3F", "U+1D40",
    "U+1D41", "U+1D42", "U+1D43", "U+1D44", "U+1D45", "U+1D46", "U+1D47", "U+1D48", "U+1D49", "U+1D4A", "U+1D4B", "U+1D4C", "U+1D4D", "U+1D4E", "U+1D4F", "U+1D50",
    "U+1D51", "U+1D52", "U+1D53", "U+1D54", "U+1D55", "U+1D56", "U+1D57", "U+1D58", "U+1D59", "U+1D5A", "U+1D5B", "U+1D5C", "U+1D5D", "U+1D5E", "U+1D5F", "U+1D60",
    "U+1D61", "U+1D62", "U+1D63", "U+1D64", "U+1D65", "U+1D66", "U+1D67", "U+1D68", "U+1D69", "U+1D6A", "U+1D78", "ᶛ", "ᶜ", "ᶝ", "ᶞ", "ᶟ",
    "ᶠ", "ᶡ", "ᶢ", "ᶣ", "ᶤ", "ᶥ", "ᶦ", "ᶧ", "ᶨ", "ᶩ", "ᶪ", "ᶫ", "ᶬ", "ᶭ", "ᶮ", "ᶯ",
    "ᶰ", "ᶱ", "ᶲ", "ᶳ", "ᶴ", "ᶵ", "ᶶ", "ᶷ", "ᶸ", "ᶹ", "ᶺ", "ᶻ", "ᶼ", "ᶽ", "ᶾ", "ᶿ",
    "᷀", "᷁", "᷂", "᷃", "᷄", "᷅", "᷆", "᷇", "᷈", "᷉", "᷊", "᷋", "᷌", "᷍", "᷎", "᷏",
    "᷐", "᷑", "᷒", "ᷓ", "ᷔ", "ᷕ", "ᷖ", "ᷗ", "ᷘ", "ᷙ", "ᷚ", "ᷛ", "ᷜ", "ᷝ", "ᷞ", "ᷟ",
    "ᷠ", "ᷡ", "ᷢ", "ᷣ", "ᷤ", "ᷥ", "ᷦ", "ᷧ", "ᷨ", "ᷩ", "ᷪ", "ᷫ", "ᷬ", "ᷭ", "ᷮ", "ᷯ",
    "ᷰ", "ᷱ", "ᷲ", "ᷳ", "ᷴ", "᷵", "᷶", "᷷", "᷸", "᷹", "᷺", "᷻", "᷼", "᷽", "᷾", "᷿",
    "᾽", "᾿", "῀", "῁", "῍", "῎", "῏", "῝", "῞", "῟", "῭", "΅", "`", "´", "῾", "U+200B",
    "U+200C", "U+200D", "U+200E", "U+200F", "U+2018", "U+2019", "U+2024", "U+2027", "U+202A", "U+202B", "U+202C", "U+202D", "U+202E", "U+2060", "U+2061", "U+2062",
    "U+2063", "U+2064", "U+2066", "U+2067", "U+2068", "U+2069", "U+206A", "U+206B", "U+206C", "U+206D", "U+206E", "U+206F", "U+2071", "U+207F", "ₐ", "ₑ",
    "ₒ", "ₓ", "ₔ", "ₕ", "ₖ", "ₗ", "ₘ", "ₙ", "ₚ", "ₛ", "ₜ", "⃐", "⃑", "⃒", "⃓", "⃔",
    "⃕", "⃖", "⃗", "⃘", "⃙", "⃚", "⃛", "⃜", "⃝", "⃞", "⃟", "⃠", "⃡", "⃢", "⃣", "⃤",
    "⃥", "⃦", "⃧", "⃨", "⃩", "⃪", "⃫", "⃬", "⃭", "⃮", "⃯", "⃰", "U+2C7C", "U+2C7D", "⳯", "⳰",
    "⳱", "U+2D6F", "U+2D7F", "ⷠ", "ⷡ", "ⷢ", "ⷣ", "ⷤ", "ⷥ", "ⷦ", "ⷧ", "ⷨ", "ⷩ", "ⷪ", "ⷫ", "ⷬ",
    "ⷭ", "ⷮ", "ⷯ", "ⷰ", "ⷱ", "ⷲ", "ⷳ", "ⷴ", "ⷵ", "ⷶ", "ⷷ", "ⷸ", "ⷹ", "ⷺ", "ⷻ", "ⷼ",
    "ⷽ", "ⷾ", "ⷿ", "U+2E2F", "U+3005", "U+302A", "U+302B", "U+302C", "U+302D", "U+3031", "U+3032", "U+3033", "U+3034", "U+3035", "U+303B", "゙",
    "゚", "゛", "゜", "ゝ", "ゞ", "ー", "ヽ", "ヾ", "U+A015", "ꓸ", "ꓹ", "ꓺ", "ꓻ", "ꓼ", "ꓽ", "U+A60C",
    "U+A66F", "U+A670", "U+A671", "U+A672", "U+A674", "U+A675", "U+A676", "U+A677", "U+A678", "U+A679", "U+A67A", "U+A67B", "U+A67C", "U+A67D", "U+A67F", "ꚜ",
    "ꚝ", "ꚞ", "ꚟ", "꛰", "꛱", "U+A700", "U+A701", "U+A702", "U+A703", "U+A704", "U+A705", "U+A706", "U+A707", "U+A708", "U+A709", "U+A70A",
    "U+A70B", "U+A70C", "U+A70D", "U+A70E", "U+A70F", "U+A710", "U+A711", "U+A712", "U+A713", "U+A714", "U+A715", "U+A716", "U+A717", "U+A718", "U+A719", "U+A71A",
    "U+A71B", "U+A71C", "U+A71D", "U+A71E", "U+A71F", "U+A720", "U+A721", "U+A770", "ꞈ", "꞉", "꞊", "ꟲ", "ꟳ", "ꟴ", "ꟸ", "ꟹ",
    "U+A802", "U+A806", "U+A80B", "U+A825", "U+A826", "U+A82C", "꣄", "ꣅ", "꣠", "꣡", "꣢", "꣣", "꣤", "꣥", "꣦", "꣧",
    "꣨", "꣩", "꣪", "꣫", "꣬", "꣭", "꣮", "꣯", "꣰", "꣱", "ꣿ", "U+A926", "U+A927", "U+A928", "U+A929", "U+A92A",
    "U+A92B", "U+A92C", "U+A92D", "U+A947", "U+A948", "U+A949", "U+A94A", "U+A94B", "U+A94C", "U+A94D", "U+A94E", "U+A94F", "U+A950", "U+A951", "ꦀ", "ꦁ",
    "ꦂ", "꦳", "ꦶ", "ꦷ", "ꦸ", "ꦹ", "ꦼ", "ꦽ", "ꧏ", "ꧥ", "ꧦ", "U+AA29", "U+AA2A", "U+AA2B", "U+AA2C", "U+AA2D",
    "U+AA2E", "U+AA31", "U+AA32", "U+AA35", "U+AA36", "U+AA43", "U+AA4C", "U+AA70", "U+AA7C", "ꪰ", "ꪲ", "ꪳ", "ꪴ", "ꪷ", "ꪸ", "ꪾ",
    "꪿", "꫁", "ꫝ", "ꫬ", "ꫭ", "ꫳ", "ꫴ", "꫶", "U+AB5B", "U+AB5C", "U+AB5D", "U+AB5E", "U+AB5F", "U+AB69", "U+AB6A", "U+AB6B",
    "ꯥ", "ꯨ", "꯭", "U+FB1E", "﮲", "﮳", "﮴", "﮵", "﮶", "﮷", "﮸", "﮹", "﮺", "﮻", "﮼", "﮽",
    "﮾", "﮿", "﯀", "﯁", "﯂", "U+FE00", "U+FE01", "U+FE02", "U+FE03", "U+FE04", "U+FE05", "U+FE06", "U+FE07", "U+FE08", "U+FE09", "U+FE0A",
    "U+FE0B", "U+FE0C", "U+FE0D", "U+FE0E", "U+FE0F", "U+FE13", "U+FE20", "U+FE21", "U+FE22", "U+FE23", "U+FE24", "U+FE25", "U+FE26", "U+FE27", "U+FE28", "U+FE29",
    "U+FE2A", "U+FE2B", "U+FE2C", "U+FE2D", "U+FE2E", "U+FE2F", "U+FE52", "U+FE55", "﻿", "U+FF07", "U+FF0E", "U+FF1A", "U+FF3E", "U+FF40", "U+FF70", "ﾞ",
    "ﾟ", "￣", "￹", "￺", "￻", "U+101FD", "U+102E0", "U+10376", "U+10377", "U+10378", "U+10379", "U+1037A", "U+10780", "U+10781", "U+10782", "U+10783",
    "U+10784", "U+10785", "U+10787", "U+10788", "U+10789", "U+1078A", "U+1078B", "U+1078C", "U+1078D", "U+1078E", "U+1078F", "U+10790", "U+10791", "U+10792", "U+10793", "U+10794",
    "U+10795", "U+10796", "U+10797", "U+10798", "U+10799", "U+1079A", "U+1079B", "U+1079C", "U+1079D", "U+1079E", "U+1079F", "U+107A0", "U+107A1", "U+107A2", "U+107A3", "U+107A4",
    "U+107A5", "U+107A6", "U+107A7", "U+107A8", "U+107A9", "U+107AA", "U+107AB", "U+107AC", "U+107AD", "U+107AE", "U+107AF", "U+107B0", "U+107B2", "U+107B3", "U+107B4", "U+107B5",
    "U+107B6", "U+107B7", "U+107B8", "U+107B9", "U+107BA", "U+10A01", "U+10A02", "U+10A03", "U+10A05", "U+10A06", "U+10A0C", "U+10A0D", "U+10A0E", "U+10A0F", "U+10A38", "U+10A39",
    "U+10A3A", "U+10A3F", "U+10AE5", "U+10AE6", "U+10D24", "U+10D25", "U+10D26", "U+10D27", "U+10EAB", "U+10EAC", "U+10F46", "U+10F47", "U+10F48", "U+10F49", "U+10F4A", "U+10F4B",
    "U+10F4C", "U+10F4D", "U+10F4E", "U+10F4F", "U+10F50", "U+10F82", "U+10F83", "U+10F84", "U+10F85", "U+11001", "U+11038", "U+11039", "U+1103A", "U+1103B", "U+1103C", "U+1103D",
    "U+1103E", "U+1103F", "U+11040", "U+11041", "U+11042", "U+11043", "U+11044", "U+11045", "U+11046", "U+11070", "U+11073", "U+11074", "U+1107F", "U+11080", "U+11081", "U+110B3",
    "U+110B4", "U+110B5", "U+110B6", "U+110B9", "U+110BA", "U+110BD", "U+110C2", "U+110CD", "U+11100", "U+11101", "U+11102", "U+11127", "U+11128", "U+11129", "U+1112A", "U+1112B",
    "U+1112D", "U+1112E", "U+1112F", "U+11130", "U+11131", "U+11132", "U+11133", "U+11134", "U+11173", "U+11180", "U+11181", "U+111B6", "U+111B7", "U+111B8", "U+111B9", "U+111BA",
    "U+111BB", "U+111BC", "U+111BD", "U+111BE", "U+111C9", "U+111CA", "U+111CB", "U+111CC", "U+111CF", "U+1122F", "U+11230", "U+11231", "U+11234", "U+11236", "U+11237", "U+1123E",
    "U+112DF", "U+112E3", "U+112E4", "U+112E5", "U+112E6", "U+112E7", "U+112E8", "U+112E9", "U+112EA", "U+11300", "U+11301", "U+1133B", "U+1133C", "U+11340", "U+11366", "U+11367",
    "U+11368", "U+11369", "U+1136A", "U+1136B", "U+1136C", "U+11370", "U+11371", "U+11372", "U+11373", "U+11374", "U+11438", "U+11439", "U+1143A", "U+1143B", "U+1143C", "U+1143D",
    "U+1143E", "U+1143F", "U+11442", "U+11443", "U+11444", "U+11446", "U+1145E", "U+114B3", "U+114B4", "U+114B5", "U+114B6", "U+114B7", "U+114B8", "U+114BA", "U+114BF", "U+114C0",
    "U+114C2", "U+114C3", "U+115B2", "U+115B3", "U+115B4", "U+115B5", "U+115BC", "U+115BD", "U+115BF", "U+115C0", "U+115DC", "U+115DD", "U+11633", "U+11634", "U+11635", "U+11636",
    "U+11637", "U+11638", "U+11639", "U+1163A", "U+1163D", "U+1163F", "U+11640", "U+116AB", "U+116AD", "U+116B0", "U+116B1", "U+116B2", "U+116B3", "U+116B4", "U+116B5", "U+116B7",
    "U+1171D", "U+1171E", "U+1171F", "U+11722", "U+11723", "U+11724", "U+11725", "U+11727", "U+11728", "U+11729", "U+1172A", "U+1172B", "U+1182F", "U+11830", "U+11831", "U+11832",
    "U+11833", "U+11834", "U+11835", "U+11836", "U+11837", "U+11839", "U+1183A", "U+1193B", "U+1193C", "U+1193E", "U+11943", "U+119D4", "U+119D5", "U+119D6", "U+119D7", "U+119DA",
    "U+119DB", "U+119E0", "U+11A01", "U+11A02", "U+11A03", "U+11A04", "U+11A05", "U+11A06", "U+11A07", "U+11A08", "U+11A09", "U+11A0A", "U+11A33", "U+11A34", "U+11A35", "U+11A36",
    "U+11A37", "U+11A38", "U+11A3B", "U+11A3C", "U+11A3D", "U+11A3E", "U+11A47", "U+11A51", "U+11A52", "U+11A53", "U+11A54", "U+11A55", "U+11A56", "U+11A59", "U+11A5A", "U+11A5B",
    "U+11A8A", "U+11A8B", "U+11A8C", "U+11A8D", "U+11A8E", "U+11A8F", "U+11A90", "U+11A91", "U+11A92", "U+11A93", "U+11A94", "U+11A95", "U+11A96", "U+11A98", "U+11A99", "U+11C30",
    "U+11C31", "U+11C32", "U+11C33", "U+11C34", "U+11C35", "U+11C36", "U+11C38", "U+11C39", "U+11C3A", "U+11C3B", "U+11C3C", "U+11C3D", "U+11C3F", "U+11C92", "U+11C93", "U+11C94",
    "U+11C95", "U+11C96", "U+11C97", "U+11C98", "U+11C99", "U+11C9A", "U+11C9B", "U+11C9C", "U+11C9D", "U+11C9E", "U+11C9F", "U+11CA0", "U+11CA1", "U+11CA2", "U+11CA3", "U+11CA4",
    "U+11CA5", "U+11CA6", "U+11CA7", "U+11CAA", "U+11CAB", "U+11CAC", "U+11CAD", "U+11CAE", "U+11CAF", "U+11CB0", "U+11CB2", "U+11CB3", "U+11CB5", "U+11CB6", "U+11D31", "U+11D32",
    "U+11D33", "U+11D34", "U+11D35", "U+11D36", "U+11D3A", "U+11D3C", "U+11D3D", "U+11D3F", "U+11D40", "U+11D41", "U+11D42", "U+11D43", "U+11D44", "U+11D45", "U+11D47", "U+11D90",
    "U+11D91", "U+11D95", "U+11D97", "U+11EF3", "U+11EF4", "U+13430", "U+13431", "U+13432", "U+13433", "U+13434", "U+13435", "U+13436", "U+13437", "U+13438", "U+16AF0", "U+16AF1",
    "U+16AF2", "U+16AF3", "U+16AF4", "U+16B30", "U+16B31", "U+16B32", "U+16B33", "U+16B34", "U+16B35", "U+16B36", "U+16B40", "U+16B41", "U+16B42", "U+16B43", "U+16F4F", "U+16F8F",
    "U+16F90", "U+16F91", "U+16F92", "U+16F93", "U+16F94", "U+16F95", "U+16F96", "U+16F97", "U+16F98", "U+16F99", "U+16F9A", "U+16F9B", "U+16F9C", "U+16F9D", "U+16F9E", "U+16F9F",
    "U+16FE0", "U+16FE1", "U+16FE3", "U+16FE4", "U+1AFF0", "U+1AFF1", "U+1AFF2", "U+1AFF3", "U+1AFF5", "U+1AFF6", "U+1AFF7", "U+1AFF8", "U+1AFF9", "U+1AFFA", "U+1AFFB", "U+1AFFD",
    "U+1AFFE", "U+1BC9D", "U+1BC9E", "U+1BCA0", "U+1BCA1", "U+1BCA2", "U+1BCA3", "U+1CF00", "U+1CF01", "U+1CF02", "U+1CF03", "U+1CF04", "U+1CF05", "U+1CF06", "U+1CF07", "U+1CF08",
    "U+1CF09", "U+1CF0A", "U+1CF0B", "U+1CF0C", "U+1CF0D", "U+1CF0E", "U+1CF0F", "U+1CF10", "U+1CF11", "U+1CF12", "U+1CF13", "U+1CF14", "U+1CF15", "U+1CF16", "U+1CF17", "U+1CF18",
    "U+1CF19", "U+1CF1A", "U+1CF1B", "U+1CF1C", "U+1CF1D", "U+1CF1E", "U+1CF1F", "U+1CF20", "U+1CF21", "U+1CF22", "U+1CF23", "U+1CF24", "U+1CF25", "U+1CF26", "U+1CF27", "U+1CF28",
    "U+1CF29", "U+1CF2A", "U+1CF2B", "U+1CF2C", "U+1CF2D", "U+1CF30", "U+1CF31", "U+1CF32", "U+1CF33", "U+1CF34", "U+1CF35", "U+1CF36", "U+1CF37", "U+1CF38", "U+1CF39", "U+1CF3A",
    "U+1CF3B", "U+1CF3C", "U+1CF3D", "U+1CF3E", "U+1CF3F", "U+1CF40", "U+1CF41", "U+1CF42", "U+1CF43", "U+1CF44", "U+1CF45", "U+1CF46", "U+1D167", "U+1D168", "U+1D169", "U+1D173",
    "U+1D174", "U+1D175", "U+1D176", "U+1D177", "U+1D178", "U+1D179", "U+1D17A", "U+1D17B", "U+1D17C", "U+1D17D", "U+1D17E", "U+1D17F", "U+1D180", "U+1D181", "U+1D182", "U+1D185",
    "U+1D186", "U+1D187", "U+1D188", "U+1D189", "U+1D18A", "U+1D18B", "U+1D1AA", "U+1D1AB", "U+1D1AC", "U+1D1AD", "U+1D242", "U+1D243", "U+1D244", "U+1DA00", "U+1DA01", "U+1DA02",
    "U+1DA03", "U+1DA04", "U+1DA05", "U+1DA06", "U+1DA07", "U+1DA08", "U+1DA09", "U+1DA0A", "U+1DA0B", "U+1DA0C", "U+1DA0D", "U+1DA0E", "U+1DA0F", "U+1DA10", "U+1DA11", "U+1DA12",
    "U+1DA13", "U+1DA14", "U+1DA15", "U+1DA16", "U+1DA17", "U+1DA18", "U+1DA19", "U+1DA1A", "U+1DA1B", "U+1DA1C", "U+1DA1D", "U+1DA1E", "U+1DA1F", "U+1DA20", "U+1DA21", "U+1DA22",
    "U+1DA23", "U+1DA24", "U+1DA25", "U+1DA26", "U+1DA27", "U+1DA28", "U+1DA29", "U+1DA2A", "U+1DA2B", "U+1DA2C", "U+1DA2D", "U+1DA2E", "U+1DA2F", "U+1DA30", "U+1DA31", "U+1DA32",
    "U+1DA33", "U+1DA34", "U+1DA35", "U+1DA36", "U+1DA3B", "U+1DA3C", "U+1DA3D", "U+1DA3E", "U+1DA3F", "U+1DA40", "U+1DA41", "U+1DA42", "U+1DA43", "U+1DA44", "U+1DA45", "U+1DA46",
    "U+1DA47", "U+1DA48", "U+1DA49", "U+1DA4A", "U+1DA4B", "U+1DA4C", "U+1DA4D", "U+1DA4E", "U+1DA4F", "U+1DA50", "U+1DA51", "U+1DA52", "U+1DA53", "U+1DA54", "U+1DA55", "U+1DA56",
    "U+1DA57", "U+1DA58", "U+1DA59", "U+1DA5A", "U+1DA5B", "U+1DA5C", "U+1DA5D", "U+1DA5E", "U+1DA5F", "U+1DA60", "U+1DA61", "U+1DA62", "U+1DA63", "U+1DA64", "U+1DA65", "U+1DA66",
    "U+1DA67", "U+1DA68", "U+1DA69", "U+1DA6A", "U+1DA6B", "U+1DA6C", "U+1DA75", "U+1DA84", "U+1DA9B", "U+1DA9C", "U+1DA9D", "U+1DA9E", "U+1DA9F", "U+1DAA1", "U+1DAA2", "U+1DAA3",
    "U+1DAA4", "U+1DAA5", "U+1DAA6", "U+1DAA7", "U+1DAA8", "U+1DAA9", "U+1DAAA", "U+1DAAB", "U+1DAAC", "U+1DAAD", "U+1DAAE", "U+1DAAF", "U+1E000", "U+1E001", "U+1E002", "U+1E003",
    "U+1E004", "U+1E005", "U+1E006", "U+1E008", "U+1E009", "U+1E00A", "U+1E00B", "U+1E00C", "U+1E00D", "U+1E00E", "U+1E00F", "U+1E010", "U+1E011", "U+1E012", "U+1E013", "U+1E014",
    "U+1E015", "U+1E016", "U+1E017", "U+1E018", "U+1E01B", "U+1E01C", "U+1E01D", "U+1E01E", "U+1E01F", "U+1E020", "U+1E021", "U+1E023", "U+1E024", "U+1E026", "U+1E027", "U+1E028",
    "U+1E029", "U+1E02A", "U+1E130", "U+1E131", "U+1E132", "U+1E133", "U+1E134", "U+1E135", "U+1E136", "U+1E137", "U+1E138", "U+1E139", "U+1E13A", "U+1E13B", "U+1E13C", "U+1E13D",
    "U+1E2AE", "U+1E2EC", "U+1E2ED", "U+1E2EE", "U+1E2EF", "U+1E8D0", "U+1E8D1", "U+1E8D2", "U+1E8D3", "U+1E8D4", "U+1E8D5", "U+1E8D6", "U+1E944", "U+1E945", "U+1E946", "U+1E947",
    "U+1E948", "U+1E949", "U+1E94A", "U+1E94B", "U+1F3FB", "U+1F3FC", "U+1F3FD", "U+1F3FE", "U+1F3FF", "U+E0001", "U+E0020", "U+E0021", "U+E0022", "U+E0023", "U+E0024", "U+E0025",
    "U+E0026", "U+E0027", "U+E0028", "U+E0029", "U+E002A", "U+E002B", "U+E002C", "U+E002D", "U+E002E", "U+E002F", "U+E0030", "U+E0031", "U+E0032", "U+E0033", "U+E0034", "U+E0035",
    "U+E0036", "U+E0037", "U+E0038", "U+E0039", "U+E003A", "U+E003B", "U+E003C", "U+E003D", "U+E003E", "U+E003F", "U+E0040", "U+E0041", "U+E0042", "U+E0043", "U+E0044", "U+E0045",
    "U+E0046", "U+E0047", "U+E0048", "U+E0049", "U+E004A", "U+E004B", "U+E004C", "U+E004D", "U+E004E", "U+E004F", "U+E0050", "U+E0051", "U+E0052", "U+E0053", "U+E0054", "U+E0055",
    "U+E0056", "U+E0057", "U+E0058", "U+E0059", "U+E005A", "U+E005B", "U+E005C", "U+E005D", "U+E005E", "U+E005F", "U+E0060", "U+E0061", "U+E0062", "U+E0063", "U+E0064", "U+E0065",
    "U+E0066", "U+E0067", "U+E0068", "U+E0069", "U+E006A", "U+E006B", "U+E006C", "U+E006D", "U+E006E", "U+E006F", "U+E0070", "U+E0071", "U+E0072", "U+E0073", "U+E0074", "U+E0075",
    "U+E0076", "U+E0077", "U+E0078", "U+E0079", "U+E007A", "U+E007B", "U+E007C", "U+E007D", "U+E007E", "U+E007F", "U+E0100", "U+E0101", "U+E0102", "U+E0103", "U+E0104", "U+E0105",
    "U+E0106", "U+E0107", "U+E0108", "U+E0109", "U+E010A", "U+E010B", "U+E010C", "U+E010D", "U+E010E", "U+E010F", "U+E0110", "U+E0111", "U+E0112", "U+E0113", "U+E0114", "U+E0115",
    "U+E0116", "U+E0117", "U+E0118", "U+E0119", "U+E011A", "U+E011B", "U+E011C", "U+E011D", "U+E011E", "U+E011F", "U+E0120", "U+E0121", "U+E0122", "U+E0123", "U+E0124", "U+E0125",
    "U+E0126", "U+E0127", "U+E0128", "U+E0129", "U+E012A", "U+E012B", "U+E012C", "U+E012D", "U+E012E", "U+E012F", "U+E0130", "U+E0131", "U+E0132", "U+E0133", "U+E0134", "U+E0135",
    "U+E0136", "U+E0137", "U+E0138", "U+E0139", "U+E013A", "U+E013B", "U+E013C", "U+E013D", "U+E013E", "U+E013F", "U+E0140", "U+E0141", "U+E0142", "U+E0143", "U+E0144", "U+E0145",
    "U+E0146", "U+E0147", "U+E0148", "U+E0149", "U+E014A", "U+E014B", "U+E014C", "U+E014D", "U+E014E", "U+E014F", "U+E0150", "U+E0151", "U+E0152", "U+E0153", "U+E0154", "U+E0155",
    "U+E0156", "U+E0157", "U+E0158", "U+E0159", "U+E015A", "U+E015B", "U+E015C", "U+E015D", "U+E015E", "U+E015F", "U+E0160", "U+E0161", "U+E0162", "U+E0163", "U+E0164", "U+E0165",
    "U+E0166", "U+E0167", "U+E0168", "U+E0169", "U+E016A", "U+E016B", "U+E016C", "U+E016D", "U+E016E", "U+E016F", "U+E0170", "U+E0171", "U+E0172", "U+E0173", "U+E0174", "U+E0175",
    "U+E0176", "U+E0177", "U+E0178", "U+E0179", "U+E017A", "U+E017B", "U+E017C", "U+E017D", "U+E017E", "U+E017F", "U+E0180", "U+E0181", "U+E0182", "U+E0183", "U+E0184", "U+E0185",
    "U+E0186", "U+E0187", "U+E0188", "U+E0189", "U+E018A", "U+E018B", "U+E018C", "U+E018D", "U+E018E", "U+E018F", "U+E0190", "U+E0191", "U+E0192", "U+E0193", "U+E0194", "U+E0195",
    "U+E0196", "U+E0197", "U+E0198", "U+E0199", "U+E019A", "U+E019B", "U+E019C", "U+E019D", "U+E019E", "U+E019F", "U+E01A0", "U+E01A1", "U+E01A2", "U+E01A3", "U+E01A4", "U+E01A5",
    "U+E01A6", "U+E01A7", "U+E01A8", "U+E01A9", "U+E01AA", "U+E01AB", "U+E01AC", "U+E01AD", "U+E01AE", "U+E01AF", "U+E01B0", "U+E01B1", "U+E01B2", "U+E01B3", "U+E01B4", "U+E01B5",
    "U+E01B6", "U+E01B7", "U+E01B8", "U+E01B9", "U+E01BA", "U+E01BB", "U+E01BC", "U+E01BD", "U+E01BE", "U+E01BF", "U+E01C0", "U+E01C1", "U+E01C2", "U+E01C3", "U+E01C4", "U+E01C5",
    "U+E01C6", "U+E01C7", "U+E01C8", "U+E01C9", "U+E01CA", "U+E01CB", "U+E01CC", "U+E01CD", "U+E01CE", "U+E01CF", "U+E01D0", "U+E01D1", "U+E01D2", "U+E01D3", "U+E01D4", "U+E01D5",
    "U+E01D6", "U+E01D7", "U+E01D8", "U+E01D9", "U+E01DA", "U+E01DB", "U+E01DC", "U+E01DD", "U+E01DE", "U+E01DF", "U+E01E0", "U+E01E1", "U+E01E2", "U+E01E3", "U+E01E4", "U+E01E5",
    "U+E01E6", "U+E01E7", "U+E01E8", "U+E01E9", "U+E01EA", "U+E01EB", "U+E01EC", "U+E01ED", "U+E01EE", "U+E01EF"}

\* The characters that are Cased and not Case_Ignorable.
CasedChars == {
    "A", "B", "C", "D", "E", "F", "G", "H", "I", "J", "K", "L", "M", "N", "O", "P",
    "Q", "R", "S", "T", "U", "V", "W", "X", "Y", "Z", "a", "b", "c", "d", "e", "f",
    "g", "h", "i", "j", "k", "l", "m", "n", "o", "p", "q", "r", "s", "t", "u", "v",
    "w", "x", "y", "z", "ª", "µ", "º", "À", "Á", "Â", "Ã", "Ä", "Å", "Æ", "Ç", "È",
    "É", "Ê", "Ë", "Ì", "Í", "Î", "Ï", "Ð", "Ñ", "Ò", "Ó", "Ô", "Õ", "Ö", "Ø", "Ù",
    "Ú", "Û", "Ü", "Ý", "Þ", "ß", "à", "á", "â", "ã", "ä", "å", "æ", "ç", "è", "é",
    "ê", "ë", "ì", "í", "î", "ï", "ð", "ñ", "ò", "ó", "ô", "õ", "ö", "ø", "ù", "ú",
    "û", "ü", "ý", "þ", "ÿ", "U+0100", "U+0101", "U+0102", "U+0103", "U+0104", "U+0105", "U+0106", "U+0107", "U+0108", "U+0109", "U+010A",
    "U+010B", "U+010C", "U+010D", "U+010E", "U+010F", "U+0110", "U+0111", "U+0112", "U+0113", "U+0114", "U+0115", "U+0116", "U+0117", "U+0118", "U+0119", "U+011A",
    "U+011B", "U+011C", "U+011D", "U+011E", "U+011F", "U+0120", "U+0121", "U+0122", "U+0123", "U+0124", "U+0125", "U+0126", "U+0127", "U+0128", "U+0129", "U+012A",
    "U+012B", "U+012C", "U+012D", "U+012E", "U+012F", "U+0130", "U+0131", "U+0132", "U+0133", "U+0134", "U+0135", "U+0136", "U+0137", "U+0138", "U+0139", "U+013A",
    "U+013B", "U+013C", "U+013D", "U+013E", "U+013F", "U+0140", "U+0141", "U+0142", "U+0143", "U+0144", "U+0145", "U+0146", "U+0147", "U+0148", "U+0149", "U+014A",
    "U+014B", "U+014C", "U+014D", "U+014E", "U+014F", "U+0150", "U+0151", "U+0152", "U+0153", "U+0154", "U+0155", "U+0156", "U+0157", "U+0158", "U+0159", "U+015A",
    "U+015B", "U+015C", "U+015D", "U+015E", "U+015F", "U+0160", "U+0161", "U+0162", "U+0163", "U+0164", "U+0165", "U+0166", "U+0167", "U+0168", "U+0169", "U+016A",
    "U+016B", "U+016C", "U+016D", "U+016E", "U+016F", "U+0170", "U+0171", "U+0172", "U+0173", "U+0174", "U+0175", "U+0176", "U+0177", "U+0178", "U+0179", "U+017A",
    "U+017B", "U+017C", "U+017D", "U+017E", "U+017F", "ƀ", "Ɓ", "Ƃ", "ƃ", "Ƅ", "ƅ", "Ɔ", "Ƈ", "ƈ", "Ɖ", "Ɗ",
    "Ƌ", "ƌ", "ƍ", "Ǝ", "Ə", "Ɛ", "Ƒ", "ƒ", "Ɠ", "Ɣ", "ƕ", "Ɩ", "Ɨ", "Ƙ", "ƙ", "ƚ",
    "ƛ", "Ɯ", "Ɲ", "ƞ", "Ɵ", "Ơ", "ơ", "Ƣ", "ƣ", "Ƥ", "ƥ", "Ʀ", "Ƨ", "ƨ", "Ʃ", "ƪ",
    "ƫ", "Ƭ", "ƭ", "Ʈ", "Ư", "ư", "Ʊ", "Ʋ", "Ƴ", "ƴ", "Ƶ", "ƶ", "Ʒ", "Ƹ", "ƹ", "ƺ",
    "Ƽ", "ƽ", "ƾ", "ƿ", "Ǆ", "ǅ", "ǆ", "Ǉ", "ǈ", "ǉ", "Ǌ", "ǋ", "ǌ", "Ǎ", "ǎ", "Ǐ",
    "ǐ", "Ǒ", "ǒ", "Ǔ", "ǔ", "Ǖ", "ǖ", "Ǘ", "ǘ", "Ǚ", "ǚ", "Ǜ", "ǜ", "ǝ", "Ǟ", "ǟ",
    "Ǡ", "ǡ", "Ǣ", "ǣ", "Ǥ", "ǥ", "Ǧ", "ǧ", "Ǩ", "ǩ", "Ǫ", "ǫ", "Ǭ", "ǭ", "Ǯ", "ǯ",
    "ǰ", "Ǳ", "ǲ", "ǳ", "Ǵ", "ǵ", "Ƕ", "Ƿ", "Ǹ", "ǹ", "Ǻ", "ǻ", "Ǽ", "ǽ", "Ǿ", "ǿ",
    "U+0200", "U+0201", "U+0202", "U+0203", "U+0204", "U+0205", "U+0206", "U+0207", "U+0208", "U+0209", "U+020A", "U+020B", "U+020C", "U+020D", "U+020E", "U+020F",
    "U+0210", "U+0211", "U+0212", "U+0213", "U+0214", "U+0215", "U+0216", "U+0217", "U+0218", "U+0219", "U+021A", "U+021B", "U+021C", "U+021D", "U+021E", "U+021F",
    "U+0220", "U+0221", "U+0222", "U+0223", "U+0224", "U+0225", "U+0226", "U+0227", "U+0228", "U+0229", "U+022A", "U+022B", "U+022C", "U+022D", "U+022E", "U+022F",
    "U+0230", "U+0231", "U+0232", "U+0233", "U+0234", "U+0235", "U+0236", "U+0237", "U+0238", "U+0239", "U+023A", "U+023B", "U+023C", "U+023D", "U+023E", "U+023F",
    "U+0240", "U+0241", "U+0242", "U+0243", "U+0244", "U+0245", "U+0246", "U+0247", "U+0248", "U+0249", "U+024A", "U+024B", "U+024C", "U+024D", "U+024E", "U+024F",
    "U+0250", "U+0251", "U+0252", "U+0253", "U+0254", "U+0255", "U+0256", "U+0257", "U+0258", "U+0259", "U+025A", "U+025B", "U+025C", "U+025D", "U+025E", "U+025F",
    "U+0260", "U+0261", "U+0262", "U+0263", "U+0264", "U+0265", "U+0266", "U+0267", "U+0268", "U+0269", "U+026A", "U+026B", "U+026C", "U+026D", "U+026E", "U+026F",
    "U+0270", "U+0271", "U+0272", "U+0273", "U+0274", "U+0275", "U+0276", "U+0277", "U+0278", "U+0279", "U+027A", "U+027B", "U+027C", "U+027D", "U+027E", "U+027F",
    "ʀ", "ʁ", "ʂ", "ʃ", "ʄ", "ʅ", "ʆ", "ʇ", "ʈ", "ʉ", "ʊ", "ʋ", "ʌ", "ʍ", "ʎ", "ʏ",
    "ʐ", "ʑ", "ʒ", "ʓ", "ʕ", "ʖ", "ʗ", "ʘ", "ʙ", "ʚ", "ʛ", "ʜ", "ʝ", "ʞ", "ʟ", "ʠ",
    "ʡ", "ʢ", "ʣ", "ʤ", "ʥ", "ʦ", "ʧ", "ʨ", "ʩ", "ʪ", "ʫ", "ʬ", "ʭ", "ʮ", "ʯ", "U+0370",
    "U+0371", "U+0372", "U+0373", "U+0376", "U+0377", "U+037B", "U+037C", "U+037D", "U+037F", "Ά", "Έ", "Ή", "Ί", "Ό", "Ύ", "Ώ",
    "ΐ", "Α", "Β", "Γ", "Δ", "Ε", "Ζ", "Η", "Θ", "Ι", "Κ", "Λ", "Μ", "Ν", "Ξ", "Ο",
    "Π", "Ρ", "Σ", "Τ", "Υ", "Φ", "Χ", "Ψ", "Ω", "Ϊ", "Ϋ", "ά", "έ", "ή", "ί", "ΰ",
    "α", "β", "γ", "δ", "ε", "ζ", "η", "θ", "ι", "κ", "λ", "μ", "ν", "ξ", "ο", "π",
    "ρ", "ς", "σ", "τ", "υ", "φ", "χ", "ψ", "ω", "ϊ", "ϋ", "ό", "ύ", "ώ", "Ϗ", "ϐ",
    "ϑ", "ϒ", "ϓ", "ϔ", "ϕ", "ϖ", "ϗ", "Ϙ", "ϙ", "Ϛ", "ϛ", "Ϝ", "ϝ", "Ϟ", "ϟ", "Ϡ",
    "ϡ", "Ϣ", "ϣ", "Ϥ", "ϥ", "Ϧ", "ϧ", "Ϩ", "ϩ", "Ϫ", "ϫ", "Ϭ", "ϭ", "Ϯ", "ϯ", "ϰ",
    "ϱ", "ϲ", "ϳ", "ϴ", "ϵ", "Ϸ", "ϸ", "Ϲ", "Ϻ", "ϻ", "ϼ", "Ͻ", "Ͼ", "Ͽ", "U+0400", "U+0401",
    "U+0402", "U+0403", "U+0404", "U+0405", "U+0406", "U+0407", "U+0408", "U+0409", "U+040A", "U+040B", "U+040C", "U+040D", "U+040E", "U+040F", "U+0410", "U+0411",
    "U+0412", "U+0413", "U+0414", "U+0415", "U+0416", "U+0417", "U+0418", "U+0419", "U+041A", "U+041B", "U+041C", "U+041D", "U+041E", "U+041F", "U+0420", "U+0421",
    "U+0422", "U+0423", "U+0424", "U+0425", "U+0426", "U+0427", "U+0428", "U+0429", "U+042A", "U+042B", "U+042C", "U+042D", "U+042E", "U+042F", "U+0430", "U+0431",
    "U+0432", "U+0433", "U+0434", "U+0435", "U+0436", "U+0437", "U+0438", "U+0439", "U+043A", "U+043B", "U+043C", "U+043D", "U+043E", "U+043F", "U+0440", "U+0441",
    "U+0442", "U+0443", "U+0444", "U+0445", "U+0446", "U+0447", "U+0448", "U+0449", "U+044A", "U+044B", "U+044C", "U+044D", "U+044E", "U+044F", "U+0450", "U+0451",
    "U+0452", "U+0453", "U+0454", "U+0455", "U+0456", "U+0457", "U+0458", "U+0459", "U+045A", "U+045B", "U+045C", "U+045D", "U+045E", "U+045F", "U+0460", "U+0461",
    "U+0462", "U+0463", "U+0464", "U+0465", "U+0466", "U+0467", "U+0468", "U+0469", "U+046A", "U+046B", "U+046C", "U+046D", "U+046E", "U+046F", "U+0470", "U+0471",
    "U+0472", "U+0473", "U+0474", "U+0475", "U+0476", "U+0477", "U+0478", "U+0479", "U+047A", "U+047B", "U+047C", "U+047D", "U+047E", "U+047F", "Ҁ", "ҁ",
    "Ҋ", "ҋ", "Ҍ", "ҍ", "Ҏ", "ҏ", "Ґ", "ґ", "Ғ", "ғ", "Ҕ", "ҕ", "Җ", "җ", "Ҙ", "ҙ",
    "Қ", "қ", "Ҝ", "ҝ", "Ҟ", "ҟ", "Ҡ", "ҡ", "Ң", "ң", "Ҥ", "ҥ", "Ҧ", "ҧ", "Ҩ", "ҩ",
    "Ҫ", "ҫ", "Ҭ", "ҭ", "Ү", "ү", "Ұ", "ұ", "Ҳ", "ҳ", "Ҵ", "ҵ", "Ҷ", "ҷ", "Ҹ", "ҹ",
    "Һ", "һ", "Ҽ", "ҽ", "Ҿ", "ҿ", "Ӏ", "Ӂ", "ӂ", "Ӄ", "ӄ", "Ӆ", "ӆ", "Ӈ", "ӈ", "Ӊ",
    "ӊ", "Ӌ", "ӌ", "Ӎ", "ӎ", "ӏ", "Ӑ", "ӑ", "Ӓ", "ӓ", "Ӕ", "ӕ", "Ӗ", "ӗ", "Ә", "ә",
    "Ӛ", "ӛ", "Ӝ", "ӝ", "Ӟ", "ӟ", "Ӡ", "ӡ", "Ӣ", "ӣ", "Ӥ", "ӥ", "Ӧ", "ӧ", "Ө", "ө",
    "Ӫ", "ӫ", "Ӭ", "ӭ", "Ӯ", "ӯ", "Ӱ", "ӱ", "Ӳ", "ӳ", "Ӵ", "ӵ", "Ӷ", "ӷ", "Ӹ", "ӹ",
    "Ӻ", "ӻ", "Ӽ", "ӽ", "Ӿ", "ӿ", "U+0500", "U+0501", "U+0502", "U+0503", "U+0504", "U+0505", "U+0506", "U+0507", "U+0508", "U+0509",
    "U+050A", "U+050B", "U+050C", "U+050D", "U+050E", "U+050F", "U+0510", "U+0511", "U+0512", "U+0513", "U+0514", "U+0515", "U+0516", "U+0517", "U+0518", "U+0519",
    "U+051A", "U+051B", "U+051C", "U+051D", "U+051E", "U+051F", "U+0520", "U+0521", "U+0522", "U+0523", "U+0524", "U+0525", "U+0526", "U+0527", "U+0528", "U+0529",
    "U+052A", "U+052B", "U+052C", "U+052D", "U+052E", "U+052F", "U+0531", "U+0532", "U+0533", "U+0534", "U+0535", "U+0536", "U+0537", "U+0538", "U+0539", "U+053A",
    "U+053B", "U+053C", "U+053D", "U+053E", "U+053F", "U+0540", "U+0541", "U+0542", "U+0543", "U+0544", "U+0545", "U+0546", "U+0547", "U+0548", "U+0549", "U+054A",
    "U+054B", "U+054C", "U+054D", "U+054E", "U+054F", "U+0550", "U+0551", "U+0552", "U+0553", "U+0554", "U+0555", "U+0556", "U+0560", "U+0561", "U+0562", "U+0563",
    "U+0564", "U+0565", "U+0566", "U+0567", "U+0568", "U+0569", "U+056A", "U+056B", "U+056C", "U+056D", "U+056E", "U+056F", "U+0570", "U+0571", "U+0572", "U+0573",
    "U+0574", "U+0575", "U+0576", "U+0577", "U+0578", "U+0579", "U+057A", "U+057B", "U+057C", "U+057D", "U+057E", "U+057F", "ր", "ց", "ւ", "փ",
    "ք", "օ", "ֆ", "և", "ֈ", "Ⴀ", "Ⴁ", "Ⴂ", "Ⴃ", "Ⴄ", "Ⴅ", "Ⴆ", "Ⴇ", "Ⴈ", "Ⴉ", "Ⴊ",
    "Ⴋ", "Ⴌ", "Ⴍ", "Ⴎ", "Ⴏ", "Ⴐ", "Ⴑ", "Ⴒ", "Ⴓ", "Ⴔ", "Ⴕ", "Ⴖ", "Ⴗ", "Ⴘ", "Ⴙ", "Ⴚ",
    "Ⴛ", "Ⴜ", "Ⴝ", "Ⴞ", "Ⴟ", "Ⴠ", "Ⴡ", "Ⴢ", "Ⴣ", "Ⴤ", "Ⴥ", "Ⴧ", "Ⴭ", "ა", "ბ", "გ",
    "დ", "ე", "ვ", "ზ", "თ", "ი", "კ", "ლ", "მ", "ნ", "ო", "პ", "ჟ", "რ", "ს", "ტ",
    "უ", "ფ", "ქ", "ღ", "ყ", "შ", "ჩ", "ც", "ძ", "წ", "ჭ", "ხ", "ჯ", "ჰ", "ჱ", "ჲ",
    "ჳ", "ჴ", "ჵ", "ჶ", "ჷ", "ჸ", "ჹ", "ჺ", "ჽ", "ჾ", "ჿ", "Ꭰ", "Ꭱ", "Ꭲ", "Ꭳ", "Ꭴ",
    "Ꭵ", "Ꭶ", "Ꭷ", "Ꭸ", "Ꭹ", "Ꭺ", "Ꭻ", "Ꭼ", "Ꭽ", "Ꭾ", "Ꭿ", "Ꮀ", "Ꮁ", "Ꮂ", "Ꮃ", "Ꮄ",
    "Ꮅ", "Ꮆ", "Ꮇ", "Ꮈ", "Ꮉ", "Ꮊ", "Ꮋ", "Ꮌ", "Ꮍ", "Ꮎ", "Ꮏ", "Ꮐ", "Ꮑ", "Ꮒ", "Ꮓ", "Ꮔ",
    "Ꮕ", "Ꮖ", "Ꮗ", "Ꮘ", "Ꮙ", "Ꮚ", "Ꮛ", "Ꮜ", "Ꮝ", "Ꮞ", "Ꮟ", "Ꮠ", "Ꮡ", "Ꮢ", "Ꮣ", "Ꮤ",
    "Ꮥ", "Ꮦ", "Ꮧ", "Ꮨ", "Ꮩ", "Ꮪ", "Ꮫ", "Ꮬ", "Ꮭ", "Ꮮ", "Ꮯ", "Ꮰ", "Ꮱ", "Ꮲ", "Ꮳ", "Ꮴ",
    "Ꮵ", "Ꮶ", "Ꮷ", "Ꮸ", "Ꮹ", "Ꮺ", "Ꮻ", "Ꮼ", "Ꮽ", "Ꮾ", "Ꮿ", "Ᏸ", "Ᏹ", "Ᏺ", "Ᏻ", "Ᏼ",
    "Ᏽ", "ᏸ", "ᏹ", "ᏺ", "ᏻ", "ᏼ", "ᏽ", "ᲀ", "ᲁ", "ᲂ", "ᲃ", "ᲄ", "ᲅ", "ᲆ", "ᲇ", "ᲈ",
    "Ა", "Ბ", "Გ", "Დ", "Ე", "Ვ", "Ზ", "Თ", "Ი", "Კ", "Ლ", "Მ", "Ნ", "Ო", "Პ", "Ჟ",
    "Რ", "Ს", "Ტ", "Უ", "Ფ", "Ქ", "Ღ", "Ყ", "Შ", "Ჩ", "Ც", "Ძ", "Წ", "Ჭ", "Ხ", "Ჯ",
    "Ჰ", "Ჱ", "Ჲ", "Ჳ", "Ჴ", "Ჵ", "Ჶ", "Ჷ", "Ჸ", "Ჹ", "Ჺ", "Ჽ", "Ჾ", "Ჿ", "U+1D00", "U+1D01",
    "U+1D02", "U+1D03", "U+1D04", "U+1D05", "U+1D06", "U+1D07", "U+1D08", "U+1D09", "U+1D0A", "U+1D0B", "U+1D0C", "U+1D0D", "U+1D0E", "U+1D0F", "U+1D10", "U+1D11",
    "U+1D12", "U+1D13", "U+1D14", "U+1D15", "U+1D16", "U+1D17", "U+1D18", "U+1D19", "U+1D1A", "U+1D1B", "U+1D1C", "U+1D1D", "U+1D1E", "U+1D1F", "U+1D20", "U+1D21",
    "U+1D22", "U+1D23", "U+1D24", "U+1D25", "U+1D26", "U+1D27", "U+1D28", "U+1D29", "U+1D2A", "U+1D2B", "U+1D6B", "U+1D6C", "U+1D6D", "U+1D6E", "U+1D6F", "U+1D70",
    "U+1D71", "U+1D72", "U+1D73", "U+1D74", "U+1D75", "U+1D76", "U+1D77", "U+1D79", "U+1D7A", "U+1D7B", "U+1D7C", "U+1D7D", "U+1D7E", "U+1D7F", "ᶀ", "ᶁ",
    "ᶂ", "ᶃ", "ᶄ", "ᶅ", "ᶆ", "ᶇ", "ᶈ", "ᶉ", "ᶊ", "ᶋ", "ᶌ", "ᶍ", "ᶎ", "ᶏ", "ᶐ", "ᶑ",
    "ᶒ", "ᶓ", "ᶔ", "ᶕ", "ᶖ", "ᶗ", "ᶘ", "ᶙ", "ᶚ", "U+1E00", "U+1E01", "U+1E02", "U+1E03", "U+1E04", "U+1E05", "U+1E06",
    "U+1E07", "U+1E08", "U+1E09", "U+1E0A", "U+1E0B", "U+1E0C", "U+1E0D", "U+1E0E", "U+1E0F", "U+1E10", "U+1E11", "U+1E12", "U+1E13", "U+1E14", "U+1E15", "U+1E16",
    "U+1E17", "U+1E18", "U+1E19", "U+1E1A", "U+1E1B", "U+1E1C", "U+1E1D", "U+1E1E", "U+1E1F", "U+1E20", "U+1E21", "U+1E22", "U+1E23", "U+1E24", "U+1E25", "U+1E26",
    "U+1E27", "U+1E28", "U+1E29", "U+1E2A", "U+1E2B", "U+1E2C", "U+1E2D", "U+1E2E", "U+1E2F", "U+1E30", "U+1E31", "U+1E32", "U+1E33", "U+1E34", "U+1E35", "U+1E36",
    "U+1E37", "U+1E38", "U+1E39", "U+1E3A", "U+1E3B", "U+1E3C", "U+1E3D", "U+1E3E", "U+1E3F", "U+1E40", "U+1E41", "U+1E42", "U+1E43", "U+1E44", "U+1E45", "U+1E46",
    "U+1E47", "U+1E48", "U+1E49", "U+1E4A", "U+1E4B", "U+1E4C", "U+1E4D", "U+1E4E", "U+1E4F", "U+1E50", "U+1E51", "U+1E52", "U+1E53", "U+1E54", "U+1E55", "U+1E56",
    "U+1E57", "U+1E58", "U+1E59", "U+1E5A", "U+1E5B", "U+1E5C", "U+1E5D", "U+1E5E", "U+1E5F", "U+1E60", "U+1E61", "U+1E62", "U+1E63", "U+1E64", "U+1E65", "U+1E66",
    "U+1E67", "U+1E68", "U+1E69", "U+1E6A", "U+1E6B", "U+1E6C", "U+1E6D", "U+1E6E", "U+1E6F", "U+1E70", "U+1E71", "U+1E72", "U+1E73", "U+1E74", "U+1E75", "U+1E76",
    "U+1E77", "U+1E78", "U+1E79", "U+1E7A", "U+1E7B", "U+1E7C", "U+1E7D", "U+1E7E", "U+1E7F", "Ẁ", "ẁ", "Ẃ", "ẃ", "Ẅ", "ẅ", "Ẇ",
    "ẇ", "Ẉ", "ẉ", "Ẋ", "ẋ", "Ẍ", "ẍ", "Ẏ", "ẏ", "Ẑ", "ẑ", "Ẓ", "ẓ", "Ẕ", "ẕ", "ẖ",
    "ẗ", "ẘ", "ẙ", "ẚ", "ẛ", "ẜ", "ẝ", "ẞ", "ẟ", "Ạ", "ạ", "Ả", "ả", "Ấ", "ấ", "Ầ",
    "ầ", "Ẩ", "ẩ", "Ẫ", "ẫ", "Ậ", "ậ", "Ắ", "ắ", "Ằ", "ằ", "Ẳ", "ẳ", "Ẵ", "ẵ", "Ặ",
    "ặ", "Ẹ", "ẹ", "Ẻ", "ẻ", "Ẽ", "ẽ", "Ế", "ế", "Ề", "ề", "Ể", "ể", "Ễ", "ễ", "Ệ",
    "ệ", "Ỉ", "ỉ", "Ị", "ị", "Ọ", "ọ", "Ỏ", "ỏ", "Ố", "ố", "Ồ", "ồ", "Ổ", "ổ", "Ỗ",
    "ỗ", "Ộ", "ộ", "Ớ", "ớ", "Ờ", "ờ", "Ở", "ở", "Ỡ", "ỡ", "Ợ", "ợ", "Ụ", "ụ", "Ủ",
    "ủ", "Ứ", "ứ", "Ừ", "ừ", "Ử", "ử", "Ữ", "ữ", "Ự", "ự", "Ỳ", "ỳ", "Ỵ", "ỵ", "Ỷ",
    "ỷ", "Ỹ", "ỹ", "Ỻ", "ỻ", "Ỽ", "ỽ", "Ỿ", "ỿ", "U+1F00", "U+1F01", "U+1F02", "U+1F03", "U+1F04", "U+1F05", "U+1F06",
    "U+1F07", "U+1F08", "U+1F09", "U+1F0A", "U+1F0B", "U+1F0C", "U+1F0D", "U+1F0E", "U+1F0F", "U+1F10", "U+1F11", "U+1F12", "U+1F13", "U+1F14", "U+1F15", "U+1F18",
    "U+1F19", "U+1F1A", "U+1F1B", "U+1F1C", "U+1F1D", "U+1F20", "U+1F21", "U+1F22", "U+1F23", "U+1F24", "U+1F25", "U+1F26", "U+1F27", "U+1F28", "U+1F29", "U+1F2A",
    "U+1F2B", "U+1F2C", "U+1F2D", "U+1F2E", "U+1F2F", "U+1F30", "U+1F31", "U+1F32", "U+1F33", "U+1F34", "U+1F35", "U+1F36", "U+1F37", "U+1F38", "U+1F39", "U+1F3A",
    "U+1F3B", "U+1F3C", "U+1F3D", "U+1F3E", "U+1F3F", "U+1F40", "U+1F41", "U+1F42", "U+1F43", "U+1F44", "U+1F45", "U+1F48", "U+1F49", "U+1F4A", "U+1F4B", "U+1F4C",
    "U+1F4D", "U+1F50", "U+1F51", "U+1F52", "U+1F53", "U+1F54", "U+1F55", "U+1F56", "U+1F57", "U+1F59", "U+1F5B", "U+1F5D", "U+1F5F", "U+1F60", "U+1F61", "U+1F62",
    "U+1F63", "U+1F64", "U+1F65", "U+1F66", "U+1F67", "U+1F68", "U+1F69", "U+1F6A", "U+1F6B", "U+1F6C", "U+1F6D", "U+1F6E", "U+1F6F", "U+1F70", "U+1F71", "U+1F72",
    "U+1F73", "U+1F74", "U+1F75", "U+1F76", "U+1F77", "U+1F78", "U+1F79", "U+1F7A", "U+1F7B", "U+1F7C", "U+1F7D", "ᾀ", "ᾁ", "ᾂ", "ᾃ", "ᾄ",
    "ᾅ", "ᾆ", "ᾇ", "ᾈ", "ᾉ", "ᾊ", "ᾋ", "ᾌ", "ᾍ", "ᾎ", "ᾏ", "ᾐ", "ᾑ", "ᾒ", "ᾓ", "ᾔ",
    "ᾕ", "ᾖ", "ᾗ", "ᾘ", "ᾙ", "ᾚ", "ᾛ", "ᾜ", "ᾝ", "ᾞ", "ᾟ", "ᾠ", "ᾡ", "ᾢ", "ᾣ", "ᾤ",
    "ᾥ", "ᾦ", "ᾧ", "ᾨ", "ᾩ", "ᾪ", "ᾫ", "ᾬ", "ᾭ", "ᾮ", "ᾯ", "ᾰ", "ᾱ", "ᾲ", "ᾳ", "ᾴ",
    "ᾶ", "ᾷ", "Ᾰ", "Ᾱ", "Ὰ", "Ά", "ᾼ", "ι", "ῂ", "ῃ", "ῄ", "ῆ", "ῇ", "Ὲ", "Έ", "Ὴ",
    "Ή", "ῌ", "ῐ", "ῑ", "ῒ", "ΐ", "ῖ", "ῗ", "Ῐ", "Ῑ", "Ὶ", "Ί", "ῠ", "ῡ", "ῢ", "ΰ",
    "ῤ", "ῥ", "ῦ", "ῧ", "Ῠ", "Ῡ", "Ὺ", "Ύ", "Ῥ", "ῲ", "ῳ", "ῴ", "ῶ", "ῷ", "Ὸ", "Ό",
    "Ὼ", "Ώ", "ῼ", "U+2102", "U+2107", "U+210A", "U+210B", "U+210C", "U+210D", "U+210E", "U+210F", "U+2110", "U+2111", "U+2112", "U+2113", "U+2115",
    "U+2119", "U+211A", "U+211B", "U+211C", "U+211D", "U+2124", "U+2126", "U+2128", "U+212A", "U+212B", "U+212C", "U+212D", "U+212F", "U+2130", "U+2131", "U+2132",
    "U+2133", "U+2134", "U+2139", "U+213C", "U+213D", "U+213E", "U+213F", "U+2145", "U+2146", "U+2147", "U+2148", "U+2149", "U+214E", "U+2160", "U+2161", "U+2162",
    "U+2163", "U+2164", "U+2165", "U+2166", "U+2167", "U+2168", "U+2169", "U+216A", "U+216B", "U+216C", "U+216D", "U+216E", "U+216F", "U+2170", "U+2171", "U+2172",
    "U+2173", "U+2174", "U+2175", "U+2176", "U+2177", "U+2178", "U+2179", "U+217A", "U+217B", "U+217C", "U+217D", "U+217E", "U+217F", "Ↄ", "ↄ", "Ⓐ",
    "Ⓑ", "Ⓒ", "Ⓓ", "Ⓔ", "Ⓕ", "Ⓖ", "Ⓗ", "Ⓘ", "Ⓙ", "Ⓚ", "Ⓛ", "Ⓜ", "Ⓝ", "Ⓞ", "Ⓟ", "Ⓠ",
    "Ⓡ", "Ⓢ", "Ⓣ", "Ⓤ", "Ⓥ", "Ⓦ", "Ⓧ", "Ⓨ", "Ⓩ", "ⓐ", "ⓑ", "ⓒ", "ⓓ", "ⓔ", "ⓕ", "ⓖ",
    "ⓗ", "ⓘ", "ⓙ", "ⓚ", "ⓛ", "ⓜ", "ⓝ", "ⓞ", "ⓟ", "ⓠ", "ⓡ", "ⓢ", "ⓣ", "ⓤ", "ⓥ", "ⓦ",
    "ⓧ", "ⓨ", "ⓩ", "U+2C00", "U+2C01", "U+2C02", "U+2C03", "U+2C04", "U+2C05", "U+2C06", "U+2C07", "U+2C08", "U+2C09", "U+2C0A", "U+2C0B", "U+2C0C",
    "U+2C0D", "U+2C0E", "U+2C0F", "U+2C10", "U+2C11", "U+2C12", "U+2C13", "U+2C14", "U+2C15", "U+2C16", "U+2C17", "U+2C18", "U+2C19", "U+2C1A", "U+2C1B", "U+2C1C",
    "U+2C1D", "U+2C1E", "U+2C1F", "U+2C20", "U+2C21", "U+2C22", "U+2C23", "U+2C24", "U+2C25", "U+2C26", "U+2C27", "U+2C28", "U+2C29", "U+2C2A", "U+2C2B", "U+2C2C",
    "U+2C2D", "U+2C2E", "U+2C2F", "U+2C30", "U+2C31", "U+2C32", "U+2C33", "U+2C34", "U+2C35", "U+2C36", "U+2C37", "U+2C38", "U+2C39", "U+2C3A", "U+2C3B", "U+2C3C",
    "U+2C3D", "U+2C3E", "U+2C3F", "U+2C40", "U+2C41", "U+2C42", "U+2C43", "U+2C44", "U+2C45", "U+2C46", "U+2C47", "U+2C48", "U+2C49", "U+2C4A", "U+2C4B", "U+2C4C",
    "U+2C4D", "U+2C4E", "U+2C4F", "U+2C50", "U+2C51", "U+2C52", "U+2C53", "U+2C54", "U+2C55", "U+2C56", "U+2C57", "U+2C58", "U+2C59", "U+2C5A", "U+2C5B", "U+2C5C",
    "U+2C5D", "U+2C5E", "U+2C5F", "U+2C60", "U+2C61", "U+2C62", "U+2C63", "U+2C64", "U+2C65", "U+2C66", "U+2C67", "U+2C68", "U+2C69", "U+2C6A", "U+2C6B", "U+2C6C",
    "U+2C6D", "U+2C6E", "U+2C6F", "U+2C70", "U+2C71", "U+2C72", "U+2C73", "U+2C74", "U+2C75", "U+2C76", "U+2C77", "U+2C78", "U+2C79", "U+2C7A", "U+2C7B", "U+2C7E",
    "U+2C7F", "Ⲁ", "ⲁ", "Ⲃ", "ⲃ", "Ⲅ", "ⲅ", "Ⲇ", "ⲇ", "Ⲉ", "ⲉ", "Ⲋ", "ⲋ", "Ⲍ", "ⲍ", "Ⲏ",
    "ⲏ", "Ⲑ", "ⲑ", "Ⲓ", "ⲓ", "Ⲕ", "ⲕ", "Ⲗ", "ⲗ", "Ⲙ", "ⲙ", "Ⲛ", "ⲛ", "Ⲝ", "ⲝ", "Ⲟ",
    "ⲟ", "Ⲡ", "ⲡ", "Ⲣ", "ⲣ", "Ⲥ", "ⲥ", "Ⲧ", "ⲧ", "Ⲩ", "ⲩ", "Ⲫ", "ⲫ", "Ⲭ", "ⲭ", "Ⲯ",
    "ⲯ", "Ⲱ", "ⲱ", "Ⲳ", "ⲳ", "Ⲵ", "ⲵ", "Ⲷ", "ⲷ", "Ⲹ", "ⲹ", "Ⲻ", "ⲻ", "Ⲽ", "ⲽ", "Ⲿ",
    "ⲿ", "Ⳁ", "ⳁ", "Ⳃ", "ⳃ", "Ⳅ", "ⳅ", "Ⳇ", "ⳇ", "Ⳉ", "ⳉ", "Ⳋ", "ⳋ", "Ⳍ", "ⳍ", "Ⳏ",
    "ⳏ", "Ⳑ", "ⳑ", "Ⳓ", "ⳓ", "Ⳕ", "ⳕ", "Ⳗ", "ⳗ", "Ⳙ", "ⳙ", "Ⳛ", "ⳛ", "Ⳝ", "ⳝ", "Ⳟ",
    "ⳟ", "Ⳡ", "ⳡ", "Ⳣ", "ⳣ", "ⳤ", "Ⳬ", "ⳬ", "Ⳮ", "ⳮ", "Ⳳ", "ⳳ", "U+2D00", "U+2D01", "U+2D02", "U+2D03",
    "U+2D04", "U+2D05", "U+2D06", "U+2D07", "U+2D08", "U+2D09", "U+2D0A", "U+2D0B", "U+2D0C", "U+2D0D", "U+2D0E", "U+2D0F", "U+2D10", "U+2D11", "U+2D12", "U+2D13",
    "U+2D14", "U+2D15", "U+2D16", "U+2D17", "U+2D18", "U+2D19", "U+2D1A", "U+2D1B", "U+2D1C", "U+2D1D", "U+2D1E", "U+2D1F", "U+2D20", "U+2D21", "U+2D22", "U+2D23",
    "U+2D24", "U+2D25", "U+2D27", "U+2D2D", "U+A640", "U+A641", "U+A642", "U+A643", "U+A644", "U+A645", "U+A646", "U+A647", "U+A648", "U+A649", "U+A64A", "U+A64B",
    "U+A64C", "U+A64D", "U+A64E", "U+A64F", "U+A650", "U+A651", "U+A652", "U+A653", "U+A654", "U+A655", "U+A656", "U+A657", "U+A658", "U+A659", "U+A65A", "U+A65B",
    "U+A65C", "U+A65D", "U+A65E", "U+A65F", "U+A660", "U+A661", "U+A662", "U+A663", "U+A664", "U+A665", "U+A666", "U+A667", "U+A668", "U+A669", "U+A66A", "U+A66B",
    "U+A66C", "U+A66D", "Ꚁ", "ꚁ", "Ꚃ", "ꚃ", "Ꚅ", "ꚅ", "Ꚇ", "ꚇ", "Ꚉ", "ꚉ", "Ꚋ", "ꚋ", "Ꚍ", "ꚍ",
    "Ꚏ", "ꚏ", "Ꚑ", "ꚑ", "Ꚓ", "ꚓ", "Ꚕ", "ꚕ", "Ꚗ", "ꚗ", "Ꚙ", "ꚙ", "Ꚛ", "ꚛ", "U+A722", "U+A723",
    "U+A724", "U+A725", "U+A726", "U+A727", "U+A728", "U+A729", "U+A72A", "U+A72B", "U+A72C", "U+A72D", "U+A72E", "U+A72F", "U+A730", "U+A731", "U+A732", "U+A733",
    "U+A734", "U+A735", "U+A736", "U+A737", "U+A738", "U+A739", "U+A73A", "U+A73B", "U+A73C", "U+A73D", "U+A73E", "U+A73F", "U+A740", "U+A741", "U+A742", "U+A743",
    "U+A744", "U+A745", "U+A746", "U+A747", "U+A748", "U+A749", "U+A74A", "U+A74B", "U+A74C", "U+A74D", "U+A74E", "U+A74F", "U+A750", "U+A751", "U+A752", "U+A753",
    "U+A754", "U+A755", "U+A756", "U+A757", "U+A758", "U+A759", "U+A75A", "U+A75B", "U+A75C", "U+A75D", "U+A75E", "U+A75F", "U+A760", "U+A761", "U+A762", "U+A763",
    "U+A764", "U+A765", "U+A766", "U+A767", "U+A768", "U+A769", "U+A76A", "U+A76B", "U+A76C", "U+A76D", "U+A76E", "U+A76F", "U+A771", "U+A772", "U+A773", "U+A774",
    "U+A775", "U+A776", "U+A777", "U+A778", "U+A779", "U+A77A", "U+A77B", "U+A77C", "U+A77D", "U+A77E", "U+A77F", "Ꞁ", "ꞁ", "Ꞃ", "ꞃ", "Ꞅ",
    "ꞅ", "Ꞇ", "ꞇ", "Ꞌ", "ꞌ", "Ɥ", "ꞎ", "Ꞑ", "ꞑ", "Ꞓ", "ꞓ", "ꞔ", "ꞕ", "Ꞗ", "ꞗ", "Ꞙ",
    "ꞙ", "Ꞛ", "ꞛ", "Ꞝ", "ꞝ", "Ꞟ", "ꞟ", "Ꞡ", "ꞡ", "Ꞣ", "ꞣ", "Ꞥ", "ꞥ", "Ꞧ", "ꞧ", "Ꞩ",
    "ꞩ", "Ɦ", "Ɜ", "Ɡ", "Ɬ", "Ɪ", "ꞯ", "Ʞ", "Ʇ", "Ʝ", "Ꭓ", "Ꞵ", "ꞵ", "Ꞷ", "ꞷ", "Ꞹ",
    "ꞹ", "Ꞻ", "ꞻ", "Ꞽ", "ꞽ", "Ꞿ", "ꞿ", "Ꟁ", "ꟁ", "Ꟃ", "ꟃ", "Ꞔ", "Ʂ", "Ᶎ", "Ꟈ", "ꟈ",
    "Ꟊ", "ꟊ", "Ꟑ", "ꟑ", "ꟓ", "ꟕ", "Ꟗ", "ꟗ", "Ꟙ", "ꟙ", "Ꟶ", "ꟶ", "ꟺ", "U+AB30", "U+AB31", "U+AB32",
    "U+AB33", "U+AB34", "U+AB35", "U+AB36", "U+AB37", "U+AB38", "U+AB39", "U+AB3A", "U+AB3B", "U+AB3C", "U+AB3D", "U+AB3E", "U+AB3F", "U+AB40", "U+AB41", "U+AB42",
    "U+AB43", "U+AB44", "U+AB45", "U+AB46", "U+AB47", "U+AB48", "U+AB49", "U+AB4A", "U+AB4B", "U+AB4C", "U+AB4D", "U+AB4E", "U+AB4F", "U+AB50", "U+AB51", "U+AB52",
    "U+AB53", "U+AB54", "U+AB55", "U+AB56", "U+AB57", "U+AB58", "U+AB59", "U+AB5A", "U+AB60", "U+AB61", "U+AB62", "U+AB63", "U+AB64", "U+AB65", "U+AB66", "U+AB67",
    "U+AB68", "U+AB70", "U+AB71", "U+AB72", "U+AB73", "U+AB74", "U+AB75", "U+AB76", "U+AB77", "U+AB78", "U+AB79", "U+AB7A", "U+AB7B", "U+AB7C", "U+AB7D", "U+AB7E",
    "U+AB7F", "ꮀ", "ꮁ", "ꮂ", "ꮃ", "ꮄ", "ꮅ", "ꮆ", "ꮇ", "ꮈ", "ꮉ", "ꮊ", "ꮋ", "ꮌ", "ꮍ", "ꮎ",
    "ꮏ", "ꮐ", "ꮑ", "ꮒ", "ꮓ", "ꮔ", "ꮕ", "ꮖ", "ꮗ", "ꮘ", "ꮙ", "ꮚ", "ꮛ", "ꮜ", "ꮝ", "ꮞ",
    "ꮟ", "ꮠ", "ꮡ", "ꮢ", "ꮣ", "ꮤ", "ꮥ", "ꮦ", "ꮧ", "ꮨ", "ꮩ", "ꮪ", "ꮫ", "ꮬ", "ꮭ", "ꮮ",
    "ꮯ", "ꮰ", "ꮱ", "ꮲ", "ꮳ", "ꮴ", "ꮵ", "ꮶ", "ꮷ", "ꮸ", "ꮹ", "ꮺ", "ꮻ", "ꮼ", "ꮽ", "ꮾ",
    "ꮿ", "U+FB00", "U+FB01", "U+FB02", "U+FB03", "U+FB04", "U+FB05", "U+FB06", "U+FB13", "U+FB14", "U+FB15", "U+FB16", "U+FB17", "U+FF21", "U+FF22", "U+FF23",
    "U+FF24", "U+FF25", "U+FF26", "U+FF27", "U+FF28", "U+FF29", "U+FF2A", "U+FF2B", "U+FF2C", "U+FF2D", "U+FF2E", "U+FF2F", "U+FF30", "U+FF31", "U+FF32", "U+FF33",
    "U+FF34", "U+FF35", "U+FF36", "U+FF37", "U+FF38", "U+FF39", "U+FF3A", "U+FF41", "U+FF42", "U+FF43", "U+FF44", "U+FF45", "U+FF46", "U+FF47", "U+FF48", "U+FF49",
    "U+FF4A", "U+FF4B", "U+FF4C", "U+FF4D", "U+FF4E", "U+FF4F", "U+FF50", "U+FF51", "U+FF52", "U+FF53", "U+FF54", "U+FF55", "U+FF56", "U+FF57", "U+FF58", "U+FF59",
    "U+FF5A", "U+10400", "U+10401", "U+10402", "U+10403", "U+10404", "U+10405", "U+10406", "U+10407", "U+10408", "U+10409", "U+1040A", "U+1040B", "U+1040C", "U+1040D", "U+1040E",
    "U+1040F", "U+10410", "U+10411", "U+10412", "U+10413", "U+10414", "U+10415", "U+10416", "U+10417", "U+10418", "U+10419", "U+1041A", "U+1041B", "U+1041C", "U+1041D", "U+1041E",
    "U+1041F", "U+10420", "U+10421", "U+10422", "U+10423", "U+10424", "U+10425", "U+10426", "U+10427", "U+10428", "U+10429", "U+1042A", "U+1042B", "U+1042C", "U+1042D", "U+1042E",
    "U+1042F", "U+10430", "U+10431", "U+10432", "U+10433", "U+10434", "U+10435", "U+10436", "U+10437", "U+10438", "U+10439", "U+1043A", "U+1043B", "U+1043C", "U+1043D", "U+1043E",
    "U+1043F", "U+10440", "U+10441", "U+10442", "U+10443", "U+10444", "U+10445", "U+10446", "U+10447", "U+10448", "U+10449", "U+1044A", "U+1044B", "U+1044C", "U+1044D", "U+1044E",
    "U+1044F", "U+104B0", "U+104B1", "U+104B2", "U+104B3", "U+104B4", "U+104B5", "U+104B6", "U+104B7", "U+104B8", "U+104B9", "U+104BA", "U+104BB", "U+104BC", "U+104BD", "U+104BE",
    "U+104BF", "U+104C0", "U+104C1", "U+104C2", "U+104C3", "U+104C4", "U+104C5", "U+104C6", "U+104C7", "U+104C8", "U+104C9", "U+104CA", "U+104CB", "U+104CC", "U+104CD", "U+104CE",
    "U+104CF", "U+104D0", "U+104D1", "U+104D2", "U+104D3", "U+104D8", "U+104D9", "U+104DA", "U+104DB", "U+104DC", "U+104DD", "U+104DE", "U+104DF", "U+104E0", "U+104E1", "U+104E2",
    "U+104E3", "U+104E4", "U+104E5", "U+104E6", "U+104E7", "U+104E8", "U+104E9", "U+104EA", "U+104EB", "U+104EC", "U+104ED", "U+104EE", "U+104EF", "U+104F0", "U+104F1", "U+104F2",
    "U+104F3", "U+104F4", "U+104F5", "U+104F6", "U+104F7", "U+104F8", "U+104F9", "U+104FA", "U+104FB", "U+10570", "U+10571", "U+10572", "U+10573", "U+10574", "U+10575", "U+10576",
    "U+10577", "U+10578", "U+10579", "U+1057A", "U+1057C", "U+1057D", "U+1057E", "U+1057F", "U+10580", "U+10581", "U+10582", "U+10583", "U+10584", "U+10585", "U+10586", "U+10587",
    "U+10588", "U+10589", "U+1058A", "U+1058C", "U+1058D", "U+1058E", "U+1058F", "U+10590", "U+10591", "U+10592", "U+10594", "U+10595", "U+10597", "U+10598", "U+10599", "U+1059A",
    "U+1059B", "U+1059C", "U+1059D", "U+1059E", "U+1059F", "U+105A0", "U+105A1", "U+105A3", "U+105A4", "U+105A5", "U+105A6", "U+105A7", "U+105A8", "U+105A9", "U+105AA", "U+105AB",
    "U+105AC", "U+105AD", "U+105AE", "U+105AF", "U+105B0", "U+105B1", "U+105B3", "U+105B4", "U+105B5", "U+105B6", "U+105B7", "U+105B8", "U+105B9", "U+105BB", "U+105BC", "U+10C80",
    "U+10C81", "U+10C82", "U+10C83", "U+10C84", "U+10C85", "U+10C86", "U+10C87", "U+10C88", "U+10C89", "U+10C8A", "U+10C8B", "U+10C8C", "U+10C8D", "U+10C8E", "U+10C8F", "U+10C90",
    "U+10C91", "U+10C92", "U+10C93", "U+10C94", "U+10C95", "U+10C96", "U+10C97", "U+10C98", "U+10C99", "U+10C9A", "U+10C9B", "U+10C9C", "U+10C9D", "U+10C9E", "U+10C9F", "U+10CA0",
    "U+10CA1", "U+10CA2", "U+10CA3", "U+10CA4", "U+10CA5", "U+10CA6", "U+10CA7", "U+10CA8", "U+10CA9", "U+10CAA", "U+10CAB", "U+10CAC", "U+10CAD", "U+10CAE", "U+10CAF", "U+10CB0",
    "U+10CB1", "U+10CB2", "U+10CC0", "U+10CC1", "U+10CC2", "U+10CC3", "U+10CC4", "U+10CC5", "U+10CC6", "U+10CC7", "U+10CC8", "U+10CC9", "U+10CCA", "U+10CCB", "U+10CCC", "U+10CCD",
    "U+10CCE", "U+10CCF", "U+10CD0", "U+10CD1", "U+10CD2", "U+10CD3", "U+10CD4", "U+10CD5", "U+10CD6", "U+10CD7", "U+10CD8", "U+10CD9", "U+10CDA", "U+10CDB", "U+10CDC", "U+10CDD",
    "U+10CDE", "U+10CDF", "U+10CE0", "U+10CE1", "U+10CE2", "U+10CE3", "U+10CE4", "U+10CE5", "U+10CE6", "U+10CE7", "U+10CE8", "U+10CE9", "U+10CEA", "U+10CEB", "U+10CEC", "U+10CED",
    "U+10CEE", "U+10CEF", "U+10CF0", "U+10CF1", "U+10CF2", "U+118A0", "U+118A1", "U+118A2", "U+118A3", "U+118A4", "U+118A5", "U+118A6", "U+118A7", "U+118A8", "U+118A9", "U+118AA",
    "U+118AB", "U+118AC", "U+118AD", "U+118AE", "U+118AF", "U+118B0", "U+118B1", "U+118B2", "U+118B3", "U+118B4", "U+118B5", "U+118B6", "U+118B7", "U+118B8", "U+118B9", "U+118BA",
    "U+118BB", "U+118BC", "U+118BD", "U+118BE", "U+118BF", "U+118C0", "U+118C1", "U+118C2", "U+118C3", "U+118C4", "U+118C5", "U+118C6", "U+118C7", "U+118C8", "U+118C9", "U+118CA",
    "U+118CB", "U+118CC", "U+118CD", "U+118CE", "U+118CF", "U+118D0", "U+118D1", "U+118D2", "U+118D3", "U+118D4", "U+118D5", "U+118D6", "U+118D7", "U+118D8", "U+118D9", "U+118DA",
    "U+118DB", "U+118DC", "U+118DD", "U+118DE", "U+118DF", "U+16E40", "U+16E41", "U+16E42", "U+16E43", "U+16E44", "U+16E45", "U+16E46", "U+16E47", "U+16E48", "U+16E49", "U+16E4A",
    "U+16E4B", "U+16E4C", "U+16E4D", "U+16E4E", "U+16E4F", "U+16E50", "U+16E51", "U+16E52", "U+16E53", "U+16E54", "U+16E55", "U+16E56", "U+16E57", "U+16E58", "U+16E59", "U+16E5A",
    "U+16E5B", "U+16E5C", "U+16E5D", "U+16E5E", "U+16E5F", "U+16E60", "U+16E61", "U+16E62", "U+16E63", "U+16E64", "U+16E65", "U+16E66", "U+16E67", "U+16E68", "U+16E69", "U+16E6A",
    "U+16E6B", "U+16E6C", "U+16E6D", "U+16E6E", "U+16E6F", "U+16E70", "U+16E71", "U+16E72", "U+16E73", "U+16E74", "U+16E75", "U+16E76", "U+16E77", "U+16E78", "U+16E79", "U+16E7A",
    "U+16E7B", "U+16E7C", "U+16E7D", "U+16E7E", "U+16E7F", "U+1D400", "U+1D401", "U+1D402", "U+1D403", "U+1D404", "U+1D405", "U+1D406", "U+1D407", "U+1D408", "U+1D409", "U+1D40A",
    "U+1D40B", "U+1D40C", "U+1D40D", "U+1D40E", "U+1D40F", "U+1D410", "U+1D411", "U+1D412", "U+1D413", "U+1D414", "U+1D415", "U+1D416", "U+1D417", "U+1D418", "U+1D419", "U+1D41A",
    "U+1D41B", "U+1D41C", "U+1D41D", "U+1D41E", "U+1D41F", "U+1D420", "U+1D421", "U+1D422", "U+1D423", "U+1D424", "U+1D425", "U+1D426", "U+1D427", "U+1D428", "U+1D429", "U+1D42A",
    "U+1D42B", "U+1D42C", "U+1D42D", "U+1D42E", "U+1D42F", "U+1D430", "U+1D431", "U+1D432", "U+1D433", "U+1D434", "U+1D435", "U+1D436", "U+1D437", "U+1D438", "U+1D439", "U+1D43A",
    "U+1D43B", "U+1D43C", "U+1D43D", "U+1D43E", "U+1D43F", "U+1D440", "U+1D441", "U+1D442", "U+1D443", "U+1D444", "U+1D445", "U+1D446", "U+1D447", "U+1D448", "U+1D449", "U+1D44A",
    "U+1D44B", "U+1D44C", "U+1D44D", "U+1D44E", "U+1D44F", "U+1D450", "U+1D451", "U+1D452", "U+1D453", "U+1D454", "U+1D456", "U+1D457", "U+1D458", "U+1D459", "U+1D45A", "U+1D45B",
    "U+1D45C", "U+1D45D", "U+1D45E", "U+1D45F", "U+1D460", "U+1D461", "U+1D462", "U+1D463", "U+1D464", "U+1D465", "U+1D466", "U+1D467", "U+1D468", "U+1D469", "U+1D46A", "U+1D46B",
    "U+1D46C", "U+1D46D", "U+1D46E", "U+1D46F", "U+1D470", "U+1D471", "U+1D472", "U+1D473", "U+1D474", "U+1D475", "U+1D476", "U+1D477", "U+1D478", "U+1D479", "U+1D47A", "U+1D47B",
    "U+1D47C", "U+1D47D", "U+1D47E", "U+1D47F", "U+1D480", "U+1D481", "U+1D482", "U+1D483", "U+1D484", "U+1D485", "U+1D486", "U+1D487", "U+1D488", "U+1D489", "U+1D48A", "U+1D48B",
    "U+1D48C", "U+1D48D", "U+1D48E", "U+1D48F", "U+1D490", "U+1D491", "U+1D492", "U+1D493", "U+1D494", "U+1D495", "U+1D496", "U+1D497", "U+1D498", "U+1D499", "U+1D49A", "U+1D49B",
    "U+1D49C", "U+1D49E", "U+1D49F", "U+1D4A2", "U+1D4A5", "U+1D4A6", "U+1D4A9", "U+1D4AA", "U+1D4AB", "U+1D4AC", "U+1D4AE", "U+1D4AF", "U+1D4B0", "U+1D4B1", "U+1D4B2", "U+1D4B3",
    "U+1D4B4", "U+1D4B5", "U+1D4B6", "U+1D4B7", "U+1D4B8", "U+1D4B9", "U+1D4BB", "U+1D4BD", "U+1D4BE", "U+1D4BF", "U+1D4C0", "U+1D4C1", "U+1D4C2", "U+1D4C3", "U+1D4C5", "U+1D4C6",
    "U+1D4C7", "U+1D4C8", "U+1D4C9", "U+1D4CA", "U+1D4CB", "U+1D4CC", "U+1D4CD", "U+1D4CE", "U+1D4CF", "U+1D4D0", "U+1D4D1", "U+1D4D2", "U+1D4D3", "U+1D4D4", "U+1D4D5", "U+1D4D6",
    "U+1D4D7", "U+1D4D8", "U+1D4D9", "U+1D4DA", "U+1D4DB", "U+1D4DC", "U+1D4DD", "U+1D4DE", "U+1D4DF", "U+1D4E0", "U+1D4E1", "U+1D4E2", "U+1D4E3", "U+1D4E4", "U+1D4E5", "U+1D4E6",
    "U+1D4E7", "U+1D4E8", "U+1D4E9", "U+1D4EA", "U+1D4EB", "U+1D4EC", "U+1D4ED", "U+1D4EE", "U+1D4EF", "U+1D4F0", "U+1D4F1", "U+1D4F2", "U+1D4F3", "U+1D4F4", "U+1D4F5", "U+1D4F6",
    "U+1D4F7", "U+1D4F8", "U+1D4F9", "U+1D4FA", "U+1D4FB", "U+1D4FC", "U+1D4FD", "U+1D4FE", "U+1D4FF", "U+1D500", "U+1D501", "U+1D502", "U+1D503", "U+1D504", "U+1D505", "U+1D507",
    "U+1D508", "U+1D509", "U+1D50A", "U+1D50D", "U+1D50E", "U+1D50F", "U+1D510", "U+1D511", "U+1D512", "U+1D513", "U+1D514", "U+1D516", "U+1D517", "U+1D518", "U+1D519", "U+1D51A",
    "U+1D51B", "U+1D51C", "U+1D51E", "U+1D51F", "U+1D520", "U+1D521", "U+1D522", "U+1D523", "U+1D524", "U+1D525", "U+1D526", "U+1D527", "U+1D528", "U+1D529", "U+1D52A", "U+1D52B",
    "U+1D52C", "U+1D52D", "U+1D52E", "U+1D52F", "U+1D530", "U+1D531", "U+1D532", "U+1D533", "U+1D534", "U+1D535", "U+1D536", "U+1D537", "U+1D538", "U+1D539", "U+1D53B", "U+1D53C",
    "U+1D53D", "U+1D53E", "U+1D540", "U+1D541", "U+1D542", "U+1D543", "U+1D544", "U+1D546", "U+1D54A", "U+1D54B", "U+1D54C", "U+1D54D", "U+1D54E", "U+1D54F", "U+1D550", "U+1D552",
    "U+1D553", "U+1D554", "U+1D555", "U+1D556", "U+1D557", "U+1D558", "U+1D559", "U+1D55A", "U+1D55B", "U+1D55C", "U+1D55D", "U+1D55E", "U+1D55F", "U+1D560", "U+1D561", "U+1D562",
    "U+1D563", "U+1D564", "U+1D565", "U+1D566", "U+1D567", "U+1D568", "U+1D569", "U+1D56A", "U+1D56B", "U+1D56C", "U+1D56D", "U+1D56E", "U+1D56F", "U+1D570", "U+1D571", "U+1D572",
    "U+1D573", "U+1D574", "U+1D575", "U+1D576", "U+1D577", "U+1D578", "U+1D579", "U+1D57A", "U+1D57B", "U+1D57C", "U+1D57D", "U+1D57E", "U+1D57F", "U+1D580", "U+1D581", "U+1D582",
    "U+1D583", "U+1D584", "U+1D585", "U+1D586", "U+1D587", "U+1D588", "U+1D589", "U+1D58A", "U+1D58B", "U+1D58C", "U+1D58D", "U+1D58E", "U+1D58F", "U+1D590", "U+1D591", "U+1D592",
    "U+1D593", "U+1D594", "U+1D595", "U+1D596", "U+1D597", "U+1D598", "U+1D599", "U+1D59A", "U+1D59B", "U+1D59C", "U+1D59D", "U+1D59E", "U+1D59F", "U+1D5A0", "U+1D5A1", "U+1D5A2",
    "U+1D5A3", "U+1D5A4", "U+1D5A5", "U+1D5A6", "U+1D5A7", "U+1D5A8", "U+1D5A9", "U+1D5AA", "U+1D5AB", "U+1D5AC", "U+1D5AD", "U+1D5AE", "U+1D5AF", "U+1D5B0", "U+1D5B1", "U+1D5B2",
    "U+1D5B3", "U+1D5B4", "U+1D5B5", "U+1D5B6", "U+1D5B7", "U+1D5B8", "U+1D5B9", "U+1D5BA", "U+1D5BB", "U+1D5BC", "U+1D5BD", "U+1D5BE", "U+1D5BF", "U+1D5C0", "U+1D5C1", "U+1D5C2",
    "U+1D5C3", "U+1D5C4", "U+1D5C5", "U+1D5C6", "U+1D5C7", "U+1D5C8", "U+1D5C9", "U+1D5CA", "U+1D5CB", "U+1D5CC", "U+1D5CD", "U+1D5CE", "U+1D5CF", "U+1D5D0", "U+1D5D1", "U+1D5D2",
    "U+1D5D3", "U+1D5D4", "U+1D5D5", "U+1D5D6", "U+1D5D7", "U+1D5D8", "U+1D5D9", "U+1D5DA", "U+1D5DB", "U+1D5DC", "U+1D5DD", "U+1D5DE", "U+1D5DF", "U+1D5E0", "U+1D5E1", "U+1D5E2",
    "U+1D5E3", "U+1D5E4", "U+1D5E5", "U+1D5E6", "U+1D5E7", "U+1D5E8", "U+1D5E9", "U+1D5EA", "U+1D5EB", "U+1D5EC", "U+1D5ED", "U+1D5EE", "U+1D5EF", "U+1D5F0", "U+1D5F1", "U+1D5F2",
    "U+1D5F3", "U+1D5F4", "U+1D5F5", "U+1D5F6", "U+1D5F7", "U+1D5F8", "U+1D5F9", "U+1D5FA", "U+1D5FB", "U+1D5FC", "U+1D5FD", "U+1D5FE", "U+1D5FF", "U+1D600", "U+1D601", "U+1D602",
    "U+1D603", "U+1D604", "U+1D605", "U+1D606", "U+1D607", "U+1D608", "U+1D609", "U+1D60A", "U+1D60B", "U+1D60C", "U+1D60D", "U+1D60E", "U+1D60F", "U+1D610", "U+1D611", "U+1D612",
    "U+1D613", "U+1D614", "U+1D615", "U+1D616", "U+1D617", "U+1D618", "U+1D619", "U+1D61A", "U+1D61B", "U+1D61C", "U+1D61D", "U+1D61E", "U+1D61F", "U+1D620", "U+1D621", "U+1D622",
    "U+1D623", "U+1D624", "U+1D625", "U+1D626", "U+1D627", "U+1D628", "U+1D629", "U+1D62A", "U+1D62B", "U+1D62C", "U+1D62D", "U+1D62E", "U+1D62F", "U+1D630", "U+1D631", "U+1D632",
    "U+1D633", "U+1D634", "U+1D635", "U+1D636", "U+1D637", "U+1D638", "U+1D639", "U+1D63A", "U+1D63B", "U+1D63C", "U+1D63D", "U+1D63E", "U+1D63F", "U+1D640", "U+1D641", "U+1D642",
    "U+1D643", "U+1D644", "U+1D645", "U+1D646", "U+1D647", "U+1D648", "U+1D649", "U+1D64A", "U+1D64B", "U+1D64C", "U+1D64D", "U+1D64E", "U+1D64F", "U+1D650", "U+1D651", "U+1D652",
    "U+1D653", "U+1D654", "U+1D655", "U+1D656", "U+1D657", "U+1D658", "U+1D659", "U+1D65A", "U+1D65B", "U+1D65C", "U+1D65D", "U+1D65E", "U+1D65F", "U+1D660", "U+1D661", "U+1D662",
    "U+1D663", "U+1D664", "U+1D665", "U+1D666", "U+1D667", "U+1D668", "U+1D669", "U+1D66A", "U+1D66B", "U+1D66C", "U+1D66D", "U+1D66E", "U+1D66F", "U+1D670", "U+1D671", "U+1D672",
    "U+1D673", "U+1D674", "U+1D675", "U+1D676", "U+1D677", "U+1D678", "U+1D679", "U+1D67A", "U+1D67B", "U+1D67C", "U+1D67D", "U+1D67E", "U+1D67F", "U+1D680", "U+1D681", "U+1D682",
    "U+1D683", "U+1D684", "U+1D685", "U+1D686", "U+1D687", "U+1D688", "U+1D689", "U+1D68A", "U+1D68B", "U+1D68C", "U+1D68D", "U+1D68E", "U+1D68F", "U+1D690", "U+1D691", "U+1D692",
    "U+1D693", "U+1D694", "U+1D695", "U+1D696", "U+1D697", "U+1D698", "U+1D699", "U+1D69A", "U+1D69B", "U+1D69C", "U+1D69D", "U+1D69E", "U+1D69F", "U+1D6A0", "U+1D6A1", "U+1D6A2",
    "U+1D6A3", "U+1D6A4", "U+1D6A5", "U+1D6A8", "U+1D6A9", "U+1D6AA", "U+1D6AB", "U+1D6AC", "U+1D6AD", "U+1D6AE", "U+1D6AF", "U+1D6B0", "U+1D6B1", "U+1D6B2", "U+1D6B3", "U+1D6B4",
    "U+1D6B5", "U+1D6B6", "U+1D6B7", "U+1D6B8", "U+1D6B9", "U+1D6BA", "U+1D6BB", "U+1D6BC", "U+1D6BD", "U+1D6BE", "U+1D6BF", "U+1D6C0", "U+1D6C2", "U+1D6C3", "U+1D6C4", "U+1D6C5",
    "U+1D6C6", "U+1D6C7", "U+1D6C8", "U+1D6C9", "U+1D6CA", "U+1D6CB", "U+1D6CC", "U+1D6CD", "U+1D6CE", "U+1D6CF", "U+1D6D0", "U+1D6D1", "U+1D6D2", "U+1D6D3", "U+1D6D4", "U+1D6D5",
    "U+1D6D6", "U+1D6D7", "U+1D6D8", "U+1D6D9", "U+1D6DA", "U+1D6DC", "U+1D6DD", "U+1D6DE", "U+1D6DF", "U+1D6E0", "U+1D6E1", "U+1D6E2", "U+1D6E3", "U+1D6E4", "U+1D6E5", "U+1D6E6",
    "U+1D6E7", "U+1D6E8", "U+1D6E9", "U+1D6EA", "U+1D6EB", "U+1D6EC", "U+1D6ED", "U+1D6EE", "U+1D6EF", "U+1D6F0", "U+1D6F1", "U+1D6F2", "U+1D6F3", "U+1D6F4", "U+1D6F5", "U+1D6F6",
    "U+1D6F7", "U+1D6F8", "U+1D6F9", "U+1D6FA", "U+1D6FC", "U+1D6FD", "U+1D6FE", "U+1D6FF", "U+1D700", "U+1D701", "U+1D702", "U+1D703", "U+1D704", "U+1D705", "U+1D706", "U+1D707",
    "U+1D708", "U+1D709", "U+1D70A", "U+1D70B", "U+1D70C", "U+1D70D", "U+1D70E", "U+1D70F", "U+1D710", "U+1D711", "U+1D712", "U+1D713", "U+1D714", "U+1D716", "U+1D717", "U+1D718",
    "U+1D719", "U+1D71A", "U+1D71B", "U+1D71C", "U+1D71D", "U+1D71E", "U+1D71F", "U+1D720", "U+1D721", "U+1D722", "U+1D723", "U+1D724", "U+1D725", "U+1D726", "U+1D727", "U+1D728",
    "U+1D729", "U+1D72A", "U+1D72B", "U+1D72C", "U+1D72D", "U+1D72E", "U+1D72F", "U+1D730", "U+1D731", "U+1D732", "U+1D733", "U+1D734", "U+1D736", "U+1D737", "U+1D738", "U+1D739",
    "U+1D73A", "U+1D73B", "U+1D73C", "U+1D73D", "U+1D73E", "U+1D73F", "U+1D740", "U+1D741", "U+1D742", "U+1D743", "U+1D744", "U+1D745", "U+1D746", "U+1D747", "U+1D748", "U+1D749",
    "U+1D74A", "U+1D74B", "U+1D74C", "U+1D74D", "U+1D74E", "U+1D750", "U+1D751", "U+1D752", "U+1D753", "U+1D754", "U+1D755", "U+1D756", "U+1D757", "U+1D758", "U+1D759", "U+1D75A",
    "U+1D75B", "U+1D75C", "U+1D75D", "U+1D75E", "U+1D75F", "U+1D760", "U+1D761", "U+1D762", "U+1D763", "U+1D764", "U+1D765", "U+1D766", "U+1D767", "U+1D768", "U+1D769", "U+1D76A",
    "U+1D76B", "U+1D76C", "U+1D76D", "U+1D76E", "U+1D770", "U+1D771", "U+1D772", "U+1D773", "U+1D774", "U+1D775", "U+1D776", "U+1D777", "U+1D778", "U+1D779", "U+1D77A", "U+1D77B",
    "U+1D77C", "U+1D77D", "U+1D77E", "U+1D77F", "U+1D780", "U+1D781", "U+1D782", "U+1D783", "U+1D784", "U+1D785", "U+1D786", "U+1D787", "U+1D788", "U+1D78A", "U+1D78B", "U+1D78C",
    "U+1D78D", "U+1D78E", "U+1D78F", "U+1D790", "U+1D791", "U+1D792", "U+1D793", "U+1D794", "U+1D795", "U+1D796", "U+1D797", "U+1D798", "U+1D799", "U+1D79A", "U+1D79B", "U+1D79C",
    "U+1D79D", "U+1D79E", "U+1D79F", "U+1D7A0", "U+1D7A1", "U+1D7A2", "U+1D7A3", "U+1D7A4", "U+1D7A5", "U+1D7A6", "U+1D7A7", "U+1D7A8", "U+1D7AA", "U+1D7AB", "U+1D7AC", "U+1D7AD",
    "U+1D7AE", "U+1D7AF", "U+1D7B0", "U+1D7B1", "U+1D7B2", "U+1D7B3", "U+1D7B4", "U+1D7B5", "U+1D7B6", "U+1D7B7", "U+1D7B8", "U+1D7B9", "U+1D7BA", "U+1D7BB", "U+1D7BC", "U+1D7BD",
    "U+1D7BE", "U+1D7BF", "U+1D7C0", "U+1D7C1", "U+1D7C2", "U+1D7C4", "U+1D7C5", "U+1D7C6", "U+1D7C7", "U+1D7C8", "U+1D7C9", "U+1D7CA", "U+1D7CB", "U+1DF00", "U+1DF01", "U+1DF02",
    "U+1DF03", "U+1DF04", "U+1DF05", "U+1DF06", "U+1DF07", "U+1DF08", "U+1DF09", "U+1DF0B", "U+1DF0C", "U+1DF0D", "U+1DF0E", "U+1DF0F", "U+1DF10", "U+1DF11", "U+1DF12", "U+1DF13",
    "U+1DF14", "U+1DF15", "U+1DF16", "U+1DF17", "U+1DF18", "U+1DF19", "U+1DF1A", "U+1DF1B", "U+1DF1C", "U+1DF1D", "U+1DF1E", "U+1E900", "U+1E901", "U+1E902", "U+1E903", "U+1E904",
    "U+1E905", "U+1E906", "U+1E907", "U+1E908", "U+1E909", "U+1E90A", "U+1E90B", "U+1E90C", "U+1E90D", "U+1E90E", "U+1E90F", "U+1E910", "U+1E911", "U+1E912", "U+1E913", "U+1E914",
    "U+1E915", "U+1E916", "U+1E917", "U+1E918", "U+1E919", "U+1E91A", "U+1E91B", "U+1E91C", "U+1E91D", "U+1E91E", "U+1E91F", "U+1E920", "U+1E921", "U+1E922", "U+1E923", "U+1E924",
    "U+1E925", "U+1E926", "U+1E927", "U+1E928", "U+1E929", "U+1E92A", "U+1E92B", "U+1E92C", "U+1E92D", "U+1E92E", "U+1E92F", "U+1E930", "U+1E931", "U+1E932", "U+1E933", "U+1E934",
    "U+1E935", "U+1E936", "U+1E937", "U+1E938", "U+1E939", "U+1E93A", "U+1E93B", "U+1E93C", "U+1E93D", "U+1E93E", "U+1E93F", "U+1E940", "U+1E941", "U+1E942", "U+1E943", "U+1F130",
    "U+1F131", "U+1F132", "U+1F133", "U+1F134", "U+1F135", "U+1F136", "U+1F137", "U+1F138", "U+1F139", "U+1F13A", "U+1F13B", "U+1F13C", "U+1F13D", "U+1F13E", "U+1F13F", "U+1F140",
    "U+1F141", "U+1F142", "U+1F143", "U+1F144", "U+1F145", "U+1F146", "U+1F147", "U+1F148", "U+1F149", "U+1F150", "U+1F151", "U+1F152", "U+1F153", "U+1F154", "U+1F155", "U+1F156",
    "U+1F157", "U+1F158", "U+1F159", "U+1F15A", "U+1F15B", "U+1F15C", "U+1F15D", "U+1F15E", "U+1F15F", "U+1F160", "U+1F161", "U+1F162", "U+1F163", "U+1F164", "U+1F165", "U+1F166",
    "U+1F167", "U+1F168", "U+1F169", "U+1F170", "U+1F171", "U+1F172", "U+1F173", "U+1F174", "U+1F175", "U+1F176", "U+1F177", "U+1F178", "U+1F179", "U+1F17A", "U+1F17B", "U+1F17C",
    "U+1F17D", "U+1F17E", "U+1F17F", "U+1F180", "U+1F181", "U+1F182", "U+1F183", "U+1F184", "U+1F185", "U+1F186", "U+1F187", "U+1F188", "U+1F189"}

\* What str.lower() makes of the capital sigma at index i of s: the final
\* form when a cased character precedes it and none follows it, the
\* case-ignorable characters in between not counting.
handle_capital_sigma(s, i) ==
    LET before == {j \in 1..(i - 1) : s[j] \notin CaseIgnorableChars}
        after == {j \in (i + 1)..Len(s) : s[j] \notin CaseIgnorableChars}
        prev == CHOOSE j \in before : \A k \in before : j >= k
        next == CHOOSE j \in after : \A k \in after : j <= k
    IN  IF /\ before # {} /\ s[prev] \in CasedChars
           /\ (after = {} \/ s[next] \notin CasedChars)
        THEN "ς" ELSE "σ"

\* The characters str.lower() puts in place of the one at index i of s.
lower_ucs4(s, i) ==
    IF s[i] = "Σ" THEN <<handle_capital_sigma(s, i)>>
    ELSE IF s[i] = "U+0130" THEN <<"i", "U+0307">>
    ELSE IF s[i] \in DOMAIN LowerMap THEN <<LowerMap[s[i]]>>
    ELSE <<s[i]>>

\* The strs of parts one after the other
RECURSIVE Concat(_)
Concat(parts) ==
    IF Len(parts) = 0 THEN <<>>
    ELSE IF Len(parts) = 1 THEN parts[1]
    ELSE LET mid == Len(parts) \div 2
         IN  Concat(SubSeq(parts, 1, mid)) \o Concat(SubSeq(parts, mid + 1, Len(parts)))

\* str.lower()
Lower(s) == Concat([i \in 1..Len(s) |-> lower_ucs4(s, i)])

\* str.lstrip(): s from its first character that is no whitespace
LStrip(s) ==
    LET first == CHOOSE i \in 1..(Len(s) + 1) :
                     /\ i = Len(s) + 1 \/ ~IsSpace(s[i])
                     /\ \A j \in 1..(i - 1) : IsSpace(s[j])
    IN  SubSeq(s, first, Len(s))

\* str.rstrip(): s up to its last character that is no whitespace
RStrip(s) ==
    LET last == CHOOSE i \in 0..Len(s) :
                    /\ i = 0 \/ ~IsSpace(s[i])
                    /\ \A j \in (i + 1)..Len(s) : IsSpace(s[j])
    IN  SubSeq(s, 1, last)

\* str.strip()
Strip(s) == RStrip(LStrip(s))

\* sub in s
Contains(s, sub) ==
    \E i \in 0..(Len(s) - Len(sub)) : SubSeq(s, i + 1, i + Len(sub)) = sub

\* The indices lo..hi of s, ascending, at which a run of non-whitespace
\* starts (side = -1: no such character before it) or ends (side = 1).
RECURSIVE RunEdges(_, _, _, _)
RunEdges(s, lo, hi, side) ==
    IF lo > hi THEN <<>>
    ELSE IF lo = hi
    THEN IF /\ ~IsSpace(s[lo])
            /\ (lo + side \notin 1..Len(s) \/ IsSpace(s[lo + side]))
         THEN <<lo>> ELSE <<>>
    ELSE LET mid == (lo + hi) \div 2
         IN  RunEdges(s, lo, mid, side) \o RunEdges(s, mid + 1, hi, side)

\* str.split(): the maximal runs of non-whitespace, in order
Split(s) ==
    LET starts == RunEdges(s, 1, Len(s), -1)
        ends == RunEdges(s, 1, Len(s), 1)
    IN  [k \in 1..Len(starts) |-> SubSeq(s, starts[k], ends[k])]

\* sep.join(parts)
Join(sep, parts) ==
    Concat([i \in 1..(2 * Len(parts) - 1) |-> IF i % 2 = 1 THEN parts[(i + 1) \div 2] ELSE sep])

----------------------------------------------------------------------------
(* src/src/service/prompt_service.py *)

saudacoes == <<
    <<"o", "i">>,
    <<"o", "l", "á">>,
    <<"o", "l", "a">>,
    <<"b", "o", "m", " ", "d", "i", "a">>,
    <<"b", "o", "a", " ", "t", "a", "r", "d", "e">>,
    <<"b", "o", "a", " ", "n", "o", "i", "t", "e">>,
    <<"h", "e", "y">>,
    <<"e", " ", "a", "í">>,
    <<"e", "a", "i">>,
    <<"t", "u", "d", "o", " ", "b", "e", "m">>
>>

GreetingHead == <<"V", "o", "c", "ê", " ", "é", " ", "u", "m", " ", "c", "o", "n", "s", "u",
    "l", "t", "o", "r", " ", "a", "g", "r", "í", "c", "o", "l", "a", " ", "e", "x", "p", "e",
    "r", "i", "e", "n", "t", "e", " ", "d", "a", " ", "S", "y", "n", "a", "p", ",", " ", "e",
    "s", "p", "e", "c", "i", "a", "l", "i", "z", "a", "d", "o", " ", "n", "o", " ", "p", "o",
    "r", "t", "f", "ó", "l", "i", "o", " ", "S", "y", "n", "g", "e", "n", "t", "a", ".", " ",
    "\n", "\n", "R", "e", "s", "p", "o", "n", "d", "a", " ", "d", "e", " ", "f", "o", "r", "m",
    "a", " ", "c", "a", "l", "o", "r", "o", "s", "a", " ", "e", " ", "n", "a", "t", "u", "r",
    "a", "l", " ", "à", " ", "s", "a", "u", "d", "a", "ç", "ã", "o", " ", "d", "o", " ", "u",
    "s", "u", "á", "r", "i", "o", ".", " ", "S", "e", "j", "a", " ", "g", "e", "n", "u", "í",
    "n", "o", ",", " ", "c", "o", "m", "o", " ", "s", "e", " ", "f", "o", "s", "s", "e", " ",
    "u", "m", " ", "e", "n", "c", "o", "n", "t", "r", "o", " ", "p", "e", "s", "s", "o", "a",
    "l", " ", "n", "o", " ", "c", "a", "m", "p", "o", ".", " ", "A", "p", "r", "e", "s", "e",
    "n", "t", "e", "-", "s", "e", " ", "b", "r", "e", "v", "e", "m", "e", "n", "t", "e", " ",
    "e", " ", "p", "e", "r", "g", "u", "n", "t", "e", " ", "c", "o", "m", "o", " ", "p", "o",
    "d", "e", " ", "a", "j", "u", "d", "a", "r", ".", "\n", "\n", "U", "s", "e", " ", "a", "p",
    "e", "n", "a", "s", " ", "t", "e", "x", "t", "o", " ", "s", "i", "m", "p", "l", "e", "s",
    ",", " ", "s", "e", "m", " ", "f", "o", "r", "m", "a", "t", "a", "ç", "ã", "o", ",", " ",
    "e", " ", "m", "a", "n", "t", "e", "n", "h", "a", " ", "a", " ", "c", "o", "n", "v", "e",
    "r", "s", "a", " ", "f", "l", "u", "i", "d", "a", " ", "e", " ", "a", "c", "o", "l", "h",
    "e", "d", "o", "r", "a", ".", "\n", "\n", "S", "a", "u", "d", "a", "ç", "ã", "o", " ", "d",
    "o", " ", "u", "s", "u", "á", "r", "i", "o", ":", " ">>

GreetingTail == <<"\n", "\n", "S", "u", "a", " ", "r", "e", "s", "p", "o", "s", "t", "a", ":">>

TechnicalHead == <<"V", "o", "c", "ê", " ", "é", " ", "u", "m", " ", "c", "o", "n", "s", "u",
    "l", "t", "o", "r", " ", "a", "g", "r", "í", "c", "o", "l", "a", " ", "e", "x", "p", "e",
    "r", "i", "e", "n", "t", "e", ",", " ", "a", "p", "a", "i", "x", "o", "n", "a", "d", "o",
    " ", "p", "o", "r", " ", "a", "j", "u", "d", "a", "r", " ", "p", "r", "o", "d", "u", "t",
    "o", "r", "e", "s", " ", "r", "u", "r", "a", "i", "s", ".", " ", "T", "e", "m", " ", "a",
    "n", "o", "s", " ", "d", "e", " ", "e", "x", "p", "e", "r", "i", "ê", "n", "c", "i", "a",
    " ", "n", "o", " ", "c", "a", "m", "p", "o", " ", "e", " ", "c", "o", "n", "h", "e", "c",
    "e", " ", "p", "r", "o", "f", "u", "n", "d", "a", "m", "e", "n", "t", "e", " ", "o", " ",
    "p", "o", "r", "t", "f", "ó", "l", "i", "o", " ", "d", "e", " ", "p", "r", "o", "d", "u",
    "t", "o", "s", " ", "S", "y", "n", "g", "e", "n", "t", "a", ".", " ", "S", "u", "a", " ",
    "f", "o", "r", "m", "a", " ", "d", "e", " ", "f", "a", "l", "a", "r", " ", "é", " ", "n",
    "a", "t", "u", "r", "a", "l", ",", " ", "a", "c", "e", "s", "s", "í", "v", "e", "l", " ",
    "e", " ", "c", "o", "n", "f", "i", "á", "v", "e", "l", " ", "-", " ", "c", "o", "m", "o",
    " ", "u", "m", " ", "a", "m", "i", "g", "o", " ", "q", "u", "e", " ", "e", "n", "t", "e",
    "n", "d", "e", " ", "d", "o", " ", "a", "s", "s", "u", "n", "t", "o", ".", "\n", "\n", "S",
    "u", "a", " ", "m", "i", "s", "s", "ã", "o", " ", "é", " ", "a", "j", "u", "d", "a", "r",
    " ", "o", " ", "u", "s", "u", "á", "r", "i", "o", " ", "c", "o", "m", " ", "a", " ", "p",
    "e", "r", "g", "u", "n", "t", "a", " ", "d", "e", "l", "e", ",", " ", "o", "f", "e", "r",
    "e", "c", "e", "n", "d", "o", " ", "o", "r", "i", "e", "n", "t", "a", "ç", "ã", "o", " ",
    "p", "r", "á", "t", "i", "c", "a", " ", "e", " ", "c", "o", "n", "f", "i", "á", "v", "e",
    "l", ".", " ", "C", "o", "n", "v", "e", "r", "s", "e", " ", "d", "e", " ", "f", "o", "r",
    "m", "a", " ", "f", "l", "u", "i", "d", "a", " ", "e", " ", "h", "u", "m", "a", "n", "a",
    ",", " ", "c", "o", "m", "o", " ", "s", "e", " ", "e", "s", "t", "i", "v", "e", "s", "s",
    "e", "m", " ", "t", "o", "m", "a", "n", "d", "o", " ", "u", "m", " ", "c", "a", "f", "é",
    " ", "e", " ", "d", "i", "s", "c", "u", "t", "i", "n", "d", "o", " ", "s", "o", "l", "u",
    "ç", "õ", "e", "s", " ", "p", "a", "r", "a", " ", "o", " ", "c", "a", "m", "p", "o", ".",
    "\n", "\n", "C", "O", "M", "O", " ", "R", "E", "S", "P", "O", "N", "D", "E", "R", ":",
    "\n", "\n", "1", ".", " ", "*", "*", "S", "e", "j", "a", " ", "N", "a", "t", "u", "r", "a",
    "l", " ", "e", " ", "C", "o", "n", "v", "e", "r", "s", "a", "c", "i", "o", "n", "a", "l",
    ":", "*", "*", "\n", " ", " ", " ", "-", " ", "F", "a", "l", "e", " ", "c", "o", "m", "o",
    " ", "u", "m", " ", "c", "o", "n", "s", "u", "l", "t", "o", "r", " ", "e", "x", "p", "e",
    "r", "i", "e", "n", "t", "e", " ", "f", "a", "l", "a", "r", "i", "a", " ", "p", "e", "s",
    "s", "o", "a", "l", "m", "e", "n", "t", "e", "\n", " ", " ", " ", "-", " ", "U", "s", "e",
    " ", "f", "r", "a", "s", "e", "s", " ", "c", "o", "n", "e", "c", "t", "a", "d", "a", "s",
    " ", "e", " ", "f", "l", "u", "i", "d", "a", "s", ",", " ", "n", "ã", "o", " ", "l", "i",
    "s", "t", "a", "s", " ", "r", "o", "b", "ó", "t", "i", "c", "a", "s", "\n", " ", " ", " ",
    "-", " ", "S", "e", "j", "a", " ", "d", "i", "r", "e", "t", "o", " ", "m", "a", "s", " ",
    "a", "c", "o", "l", "h", "e", "d", "o", "r", "\n", " ", " ", " ", "-", " ", "P", "o", "d",
    "e", " ", "u", "s", "a", "r", " ", "e", "x", "p", "r", "e", "s", "s", "õ", "e", "s", " ",
    "n", "a", "t", "u", "r", "a", "i", "s", " ", "c", "o", "m", "o", " ", "\"", "o", "l", "h",
    "a", "\"", ",", " ", "\"", "v", "e", "j", "a", " ", "b", "e", "m", "\"", ",", " ", "\"",
    "é", " ", "i", "m", "p", "o", "r", "t", "a", "n", "t", "e", " ", "l", "e", "m", "b", "r",
    "a", "r", "\"", "\n", "\n", "2", ".", " ", "*", "*", "E", "s", "t", "r", "u", "t", "u",
    "r", "e", " ", "s", "u", "a", " ", "C", "o", "n", "v", "e", "r", "s", "a", " ", "d", "e",
    " ", "F", "o", "r", "m", "a", " ", "O", "r", "g", "â", "n", "i", "c", "a", ":", "*", "*",
    "\n", " ", " ", " ", "-", " ", "C", "o", "m", "e", "c", "e", " ", "f", "a", "l", "a", "n",
    "d", "o", " ", "s", "o", "b", "r", "e", " ", "o", " ", "p", "r", "o", "d", "u", "t", "o",
    " ", "e", "m", " ", "s", "i", "\n", " ", " ", " ", "-", " ", "N", "a", "t", "u", "r", "a",
    "l", "m", "e", "n", "t", "e", " ", "m", "e", "n", "c", "i", "o", "n", "e", " ", "p", "a",
    "r", "a", " ", "q", "u", "e", " ", "s", "e", "r", "v", "e", " ", "e", " ", "c", "o", "m",
    "o", " ", "f", "u", "n", "c", "i", "o", "n", "a", "\n", " ", " ", " ", "-", " ", "F", "a",
    "l", "e", " ", "s", "o", "b", "r", "e", " ", "d", "o", "s", "a", "g", "e", "n", "s", " ",
    "e", " ", "a", "p", "l", "i", "c", "a", "ç", "ã", "o", " ", "q", "u", "a", "n", "d", "o",
    " ", "r", "e", "l", "e", "v", "a", "n", "t", "e", "\n", " ", " ", " ", "-", " ", "S", "u",
    "g", "i", "r", "a", " ", "a", "l", "t", "e", "r", "n", "a", "t", "i", "v", "a", "s", " ",
    "s", "e", " ", "c", "o", "n", "h", "e", "c", "e", "r", "\n", " ", " ", " ", "-", " ", "T",
    "e", "r", "m", "i", "n", "e", " ", "c", "o", "m", " ", "d", "i", "c", "a", "s", " ", "i",
    "m", "p", "o", "r", "t", "a", "n", "t", "e", "s", " ", "o", "u", " ", "c", "u", "i", "d",
    "a", "d", "o", "s", " ", "e", "s", "p", "e", "c", "i", "a", "i", "s", "\n", "\n", "3", ".",
    " ", "*", "*", "U", "s", "e", " ", "T", "e", "x", "t", "o", " ", "S", "i", "m", "p", "l",
    "e", "s", " ", "p", "a", "r", "a", " ", "W", "h", "a", "t", "s", "A", "p", "p", ":", "*",
    "*", "\n", " ", " ", " ", "-", " ", "S", "e", "m", " ", "f", "o", "r", "m", "a", "t", "a",
    "ç", "ã", "o", " ", "M", "a", "r", "k", "d", "o", "w", "n", " ", "(", "*", ",", " ", "#",
    ",", " ", "*", "*", ",", " ", "e", "t", "c", ".", ")", "\n", " ", " ", " ", "-", " ", "A",
    "p", "e", "n", "a", "s", " ", "t", "e", "x", "t", "o", " ", "c", "o", "r", "r", "i", "d",
    "o", " ", "c", "o", "m", " ", "q", "u", "e", "b", "r", "a", "s", " ", "d", "e", " ", "l",
    "i", "n", "h", "a", " ", "q", "u", "a", "n", "d", "o", " ", "n", "e", "c", "e", "s", "s",
    "á", "r", "i", "o", "\n", " ", " ", " ", "-", " ", "P", "a", "r", "á", "g", "r", "a", "f",
    "o", "s", " ", "c", "u", "r", "t", "o", "s", " ", "e", " ", "c", "l", "a", "r", "o", "s",
    "\n", " ", " ", " ", "-", " ", "E", "m", "o", "j", "i", "s", " ", "a", "p", "e", "n", "a",
    "s", " ", "q", "u", "a", "n", "d", "o", " ", "r", "e", "a", "l", "m", "e", "n", "t", "e",
    " ", "a", "g", "r", "e", "g", "a", "r", "e", "m", " ", "v", "a", "l", "o", "r", "\n", "\n",
    "4", ".", " ", "*", "*", "M", "a", "n", "t", "e", "n", "h", "a", " ", "o", " ", "T", "o",
    "m", " ", "P", "r", "o", "f", "i", "s", "s", "i", "o", "n", "a", "l", " ", "m", "a", "s",
    " ", "H", "u", "m", "a", "n", "o", ":", "*", "*", "\n", " ", " ", " ", "-", " ", "P", "o",
    "r", "t", "u", "g", "u", "ê", "s", " ", "b", "r", "a", "s", "i", "l", "e", "i", "r", "o",
    " ", "n", "a", "t", "u", "r", "a", "l", "\n", " ", " ", " ", "-", " ", "E", "x", "p", "l",
    "i", "q", "u", "e", " ", "t", "e", "r", "m", "o", "s", " ", "t", "é", "c", "n", "i", "c",
    "o", "s", " ", "d", "e", " ", "f", "o", "r", "m", "a", " ", "s", "i", "m", "p", "l", "e",
    "s", "\n", " ", " ", " ", "-", " ", "S", "e", "j", "a", " ", "c", "o", "n", "f", "i", "á",
    "v", "e", "l", " ", "s", "e", "m", " ", "s", "e", "r", " ", "r", "o", "b", "ó", "t", "i",
    "c", "o", "\n", " ", " ", " ", "-", " ", "M", "o", "s", "t", "r", "e", " ", "q", "u", "e",
    " ", "v", "o", "c", "ê", " ", "r", "e", "a", "l", "m", "e", "n", "t", "e", " ", "s", "e",
    " ", "i", "m", "p", "o", "r", "t", "a", " ", "e", "m", " ", "a", "j", "u", "d", "a", "r",
    "\n", "\n", "I", "n", "f", "o", "r", "m", "a", "ç", "õ", "e", "s", " ", "d", "i", "s", "p",
    "o", "n", "í", "v", "e", "i", "s", " ", "s", "o", "b", "r", "e", " ", "o", " ", "a", "s",
    "s", "u", "n", "t", "o", ":", "\n", "-", "-", "-", "\n">>

TechnicalMiddle == <<"\n", "-", "-", "-", "\n", "\n", "P", "e", "r", "g", "u", "n", "t", "a",
    " ", "d", "o", " ", "u", "s", "u", "á", "r", "i", "o", ":", " ">>

TechnicalTail == <<"\n", "\n", "S", "u", "a", " ", "r", "e", "s", "p", "o", "s", "t", "a", " ",
    "c", "o", "m", "o", " ", "c", "o", "n", "s", "u", "l", "t", "o", "r", ":">>

NoContextPlaceholder == <<"N", "e", "n", "h", "u", "m", "a", " ", "i", "n", "f", "o", "r", "m",
    "a", "ç", "ã", "o", " ", "e", "s", "p", "e", "c", "í", "f", "i", "c", "a", " ", "s", "o",
    "b", "r", "e", " ", "e", "s", "t", "e", " ", "p", "r", "o", "d", "u", "t", "o", " ", "f",
    "o", "i", " ", "e", "n", "c", "o", "n", "t", "r", "a", "d", "a", " ", "n", "o", "s", " ",
    "d", "o", "c", "u", "m", "e", "n", "t", "o", "s", " ", "d", "e", " ", "r", "e", "f", "e",
    "r", "ê", "n", "c", "i", "a", ".">>

MaxGreetingTokens == 3

is_greeting(query) ==
    /\ \E g \in 1..Len(saudacoes) : Contains(Strip(Lower(query)), saudacoes[g])
    /\ Len(Split(Strip(query))) <= MaxGreetingTokens

\* The context put into the prompt as it is, without the placeholder of line 13.
context_block_Raw(context) ==
    IF Truthy(context) THEN context.v ELSE <<>>

context_block(context) ==
    IF Truthy(context) /\ Strip(context.v) # <<>> THEN context.v ELSE NoContextPlaceholder

\* format_rag_prompt without the early return of lines 16-26.
format_rag_prompt_AlwaysTechnical(query, context) ==
    TechnicalHead \o context_block(context) \o TechnicalMiddle \o query \o TechnicalTail

\* format_rag_prompt(query: str, context): query is a str, context may be None
format_rag_prompt(query, context) ==
    IF is_greeting(query)
    THEN GreetingHead \o query \o GreetingTail
    ELSE TechnicalHead \o context_block(context) \o TechnicalMiddle \o query \o TechnicalTail

get_disclaimer == <<"\n", "⚠">> \o <<"U+FE0F">> \o <<" ", "I", "M", "P", "O", "R", "T", "A", "N",
    "T", "E", ":", " ", "E", "s", "s", "a", "s", " ", "o", "r", "i", "e", "n", "t", "a", "ç",
    "õ", "e", "s", " ", "s", "ã", "o", " ", "b", "a", "s", "e", "a", "d", "a", "s", " ", "e",
    "m", " ", "i", "n", "f", "o", "r", "m", "a", "ç", "õ", "e", "s", " ", "t", "é", "c", "n",
    "i", "c", "a", "s", " ", "d", "e", " ", "r", "e", "f", "e", "r", "ê", "n", "c", "i", "a",
    ".", " ", "S", "e", "m", "p", "r", "e", " ", "c", "o", "n", "s", "u", "l", "t", "e", " ",
    "u", "m", " ", "e", "n", "g", "e", "n", "h", "e", "i", "r", "o", " ", "a", "g", "r", "ô",
    "n", "o", "m", "o", " ", "e", " ", "l", "e", "i", "a", " ", "a", " ", "b", "u", "l", "a",
    " ", "o", "f", "i", "c", "i", "a", "l", " ", "a", "n", "t", "e", "s", " ", "d", "e", " ",
    "a", "p", "l", "i", "c", "a", "r", " ", "q", "u", "a", "l", "q", "u", "e", "r", " ", "p",
    "r", "o", "d", "u", "t", "o", ".", " ", "D", "o", "s", "a", "g", "e", "n", "s", " ", "e",
    " ", "r", "e", "c", "o", "m", "e", "n", "d", "a", "ç", "õ", "e", "s", " ", "p", "o", "d",
    "e", "m", " ", "v", "a", "r", "i", "a", "r", " ", "c", "o", "n", "f", "o", "r", "m", "e",
    " ", "s", "u", "a", " ", "r", "e", "g", "i", "ã", "o", ",", " ", "c", "o", "n", "d", "i",
    "ç", "õ", "e", "s", " ", "l", "o", "c", "a", "i", "s", " ", "e", " ", "e", "s", "t", "á",
    "g", "i", "o", " ", "d", "a", " ", "c", "u", "l", "t", "u", "r", "a", ".">>

critical_keywords == <<
    <<"d", "o", "s", "a", "g", "e", "m">>,
    <<"d", "o", "s", "e">>,
    <<"m", "l">>,
    <<"l", "i", "t", "r", "o">>,
    <<"g", "r", "a", "m", "a", "s">>,
    <<"k", "g">>,
    <<"h", "e", "c", "t", "a", "r", "e">>,
    <<"a", "p", "l", "i", "c", "a", "ç", "ã", "o">>,
    <<"a", "p", "l", "i", "c", "a", "r">>,
    <<"m", "i", "s", "t", "u", "r", "a">>,
    <<"c", "o", "n", "c", "e", "n", "t", "r", "a", "ç", "ã", "o">>,
    <<"d", "i", "l", "u", "i", "ç", "ã", "o">>,
    <<"r", "e", "c", "o", "m", "e", "n", "d", "a", "ç", "ã", "o">>,
    <<"r", "e", "c", "o", "m", "e", "n", "d", "a", "d", "o">>,
    <<"u", "s", "a", "r">>,
    <<"u", "t", "i", "l", "i", "z", "e">>,
    <<"q", "u", "a", "n", "t", "i", "d", "a", "d", "e">>,
    <<"p", "r", "o", "p", "o", "r", "ç", "ã", "o">>,
    <<"i", "n", "t", "e", "r", "v", "a", "l", "o">>,
    <<"p", "e", "r", "í", "o", "d", "o">>,
    <<"f", "r", "e", "q", "u", "ê", "n", "c", "i", "a">>,
    <<"v", "e", "z", "e", "s">>,
    <<"p", "u", "l", "v", "e", "r", "i", "z", "a", "ç", "ã", "o">>,
    <<"t", "r", "a", "t", "a", "m", "e", "n", "t", "o">>,
    <<"c", "o", "n", "t", "r", "o", "l", "e">>,
    <<"c", "o", "m", "b", "a", "t", "e">>
>>

DisclaimerThreshold == 2

critical_count(response_lower) ==
    Cardinality({k \in 1..Len(critical_keywords) : Contains(response_lower, critical_keywords[k])})

\* The disclaimer decided by a single critical keyword.
should_include_disclaimer_AtLeastOne(response_text) ==
    critical_count(Lower(response_text)) >= 1

should_include_disclaimer(response_text) ==
    critical_count(Lower(response_text)) >= DisclaimerThreshold

----------------------------------------------------------------------------
(* Calls and exceptions.  A call either returns a value or raises; backend  *)
(* lists the remote backends the call reached, in order.                    *)

Returns(v, b) == [kind |-> "return", value |-> v, backend |-> b]

Raises(e, b) == [kind |-> "raise", exc |-> e, backend |-> b]

\* An exception object; str(e) is e.message.
Exc(type, message) == [type |-> type, message |-> message]

\* The AttributeError of x.name for a value x that has no such attribute
no_attribute(x, name) ==
    Exc("AttributeError",
        <<"'">> \o TypeName(x) \o <<"'", " ", "o", "b", "j", "e", "c", "t", " ", "h", "a", "s",
            " ", "n", "o", " ", "a", "t", "t", "r", "i", "b", "u", "t", "e", " ", "'">> \o name \o <<"'">>)

\* fastapi.HTTPException: str(e) is "<status_code>: <detail>"
HTTPException(status_code, detail) ==
    [type |-> "HTTPException", status_code |-> status_code, detail |-> detail,
     message |-> IntStr(status_code) \o <<":", " ">> \o detail]

\* A collaborator handed to create_compiled_graph is the repository's service
\* in front of a backend that behaves as `backend` says, or a stand-in (the
\* Mock of test_agent.py) whose call gives `result`.
Service(backend) == [impl |-> "service", backend |-> backend]

Stub(result) == [impl |-> "stub", result |-> result]

----------------------------------------------------------------------------
(* Subscription and repr *)

\* The characters of the keys that are read by subscription or shown in a
\* message.
KeyChars ==
    [embedding |-> <<"e", "m", "b", "e", "d", "d", "i", "n", "g">>,
     indices |-> <<"i", "n", "d", "i", "c", "e", "s">>,
     values |-> <<"v", "a", "l", "u", "e", "s">>,
     Error |-> <<"E", "r", "r", "o", "r">>,
     Code |-> <<"C", "o", "d", "e">>,
     Message |-> <<"M", "e", "s", "s", "a", "g", "e">>]

\* x[key] for a key that is a str
subscript(x, key) ==
    IF IsDict(x)
    THEN IF key \in DOMAIN x THEN Returns(x[key], <<>>)
         ELSE Raises(Exc("KeyError", <<"'">> \o KeyChars[key] \o <<"'">>), <<>>)
    ELSE CASE x.t \in {"str", "json"} ->
                Raises(Exc("TypeError", <<"s", "t", "r", "i", "n", "g", " ", "i", "n", "d",
                    "i", "c", "e", "s", " ", "m", "u", "s", "t", " ", "b", "e", " ", "i", "n",
                    "t", "e", "g", "e", "r", "s", ",", " ", "n", "o", "t", " ", "'", "s", "t",
                    "r", "'">>), <<>>)
           [] x.t = "list" ->
                Raises(Exc("TypeError", <<"l", "i", "s", "t", " ", "i", "n", "d", "i", "c",
                    "e", "s", " ", "m", "u", "s", "t", " ", "b", "e", " ", "i", "n", "t", "e",
                    "g", "e", "r", "s", " ", "o", "r", " ", "s", "l", "i", "c", "e", "s", ",",
                    " ", "n", "o", "t", " ", "s", "t", "r">>),
                       <<>>)
           [] x.t \in {"None", "int", "float", "bool", "SparseVector", "QueryEmbeddings",
                       "Document"} ->
                Raises(Exc("TypeError",
                           <<"'">> \o TypeName(x) \o <<"'", " ", "o", "b", "j", "e", "c", "t",
                               " ", "i", "s", " ", "n", "o", "t", " ", "s", "u", "b", "s", "c",
                               "r", "i", "p", "t", "a", "b", "l", "e">>), <<>>)

\* Characters repr() shows as they are between the quotes of a str.
PlainChars ==
    {"a", "b", "c", "d", "e", "f", "g", "h", "i", "j", "k", "l", "m", "n", "o", "p", "q",
     "r", "s", "t", "u", "v", "w", "x", "y", "z", "A", "B", "C", "D", "E", "F", "G", "H",
     "I", "J", "K", "L", "M", "N", "O", "P", "Q", "R", "S", "T", "U", "V", "W", "X", "Y",
     "Z", "0", "1", "2", "3", "4", "5", "6", "7", "8", "9", " ", ".", ",", ":", "-", "_"}

\* repr(x) of None, a number, a bool, a str of plain characters, a list of
\* such values, and a dict of at most one key (the order of the keys of a
\* larger dict is not part of its record).
RECURSIVE PyRepr(_)
PyRepr(x) ==
    IF IsDict(x)
    THEN CASE DOMAIN x = {} -> <<"{", "}">>
           [] Cardinality(DOMAIN x) = 1 ->
                LET key == CHOOSE k \in DOMAIN x : TRUE
                IN  <<"{", "'">> \o KeyChars[key] \o <<"'", ":", " ">> \o PyRepr(x[key]) \o <<"}">>
    ELSE CASE x.t = "None"  -> <<"N", "o", "n", "e">>
           [] x.t = "int"   -> IntStr(x.n)
           [] x.t = "float" -> IntStr(x.n) \o <<".", "0">>
           [] x.t = "bool"  -> IF x.b THEN <<"T", "r", "u", "e">> ELSE <<"F", "a", "l", "s", "e">>
           [] x.t = "str" /\ (\A i \in 1..Len(x.v) : x.v[i] \in PlainChars) ->
                <<"'">> \o x.v \o <<"'">>
           [] x.t = "list"  ->
                <<"[">> \o Join(<<",", " ">>, [i \in 1..Len(x.v) |-> PyRepr(x.v[i])]) \o <<"]">>

----------------------------------------------------------------------------
(* src/src/models/embeddings.py: the pydantic models.  str(e) of pydantic's *)
(* ValidationError lists the fields that failed; the address at the end of  *)
(* each names the version of pydantic that is installed.                    *)

\* One entry of a ValidationError: the field, what is wrong with it and the
\* input it was given, for an input whose repr pydantic shows in full (one
\* of at most 50 characters).
line_error(loc, msg, type, input) ==
    CASE Len(PyRepr(input)) <= 50 ->
            loc \o <<"\n", " ", " ">> \o msg \o <<" ", "[", "t", "y", "p", "e", "=">> \o type \o <<",", " ", "i", "n", "p",
                "u", "t", "_", "v", "a", "l", "u", "e", "=">>
                \o PyRepr(input) \o <<",", " ", "i", "n", "p", "u", "t", "_", "t", "y", "p",
                    "e", "=">> \o TypeName(input)
                \o <<"]", "\n", " ", " ", " ", " ", "F", "o", "r", " ", "f", "u", "r", "t",
                    "h", "e", "r", " ", "i", "n", "f", "o", "r", "m", "a", "t", "i", "o", "n",
                    " ", "v", "i", "s", "i", "t", " ", "h", "t", "t", "p", "s", ":", "/", "/",
                    "e", "r", "r", "o", "r", "s", ".", "p", "y", "d", "a", "n", "t", "i", "c",
                    ".", "d", "e", "v", "/", "2", ".", "1", "3", "/", "v", "/">>
                \o type

ValidationError(title, errors) ==
    Exc("ValidationError",
        IntStr(Len(errors)) \o <<" ", "v", "a", "l", "i", "d", "a", "t", "i", "o", "n", " ",
            "e", "r", "r", "o", "r">>
            \o (IF Len(errors) = 1 THEN <<>> ELSE <<"s">>) \o <<" ", "f", "o", "r", " ">> \o title
            \o Concat([i \in 1..Len(errors) |-> <<"\n">> \o errors[i]]))

\* An item that is neither an int nor a float: None, a list and a dict are
\* no numbers.
not_a_number(x) ==
    IF IsDict(x) THEN TRUE
    ELSE CASE x.t \in {"None", "list"} -> TRUE
           [] x.t \in {"int", "float"} -> FALSE

\* A field declared List[int] (kind "int") or List[float] (kind "float"):
\* the entries of the ValidationError for the value it is given and, when
\* there are none, the list of the field, each number converted to the kind.
list_field(loc, value, kind) ==
    IF IsDict(value) \/ value.t # "list"
    THEN [errors |-> <<line_error(loc, <<"I", "n", "p", "u", "t", " ", "s", "h", "o", "u", "l",
        "d", " ", "b", "e", " ", "a", " ", "v", "a", "l", "i", "d", " ", "l", "i", "s", "t">>, <<"l", "i", "s",
        "t", "_", "t", "y", "p", "e">>,
                                  value)>>,
          value |-> None]
    ELSE LET bad == SelectSeq([i \in 1..Len(value.v) |-> i],
                              LAMBDA i : not_a_number(value.v[i]))
         IN  IF bad # <<>>
             THEN [errors |-> [k \in 1..Len(bad) |->
                                 line_error(loc \o <<".">> \o IntStr(bad[k] - 1),
                                            IF kind = "int"
                                            THEN <<"I", "n", "p", "u", "t", " ", "s", "h", "o",
                                                "u", "l", "d", " ", "b", "e", " ", "a", " ",
                                                "v", "a", "l", "i", "d", " ", "i", "n", "t",
                                                "e", "g", "e", "r">>
                                            ELSE <<"I", "n", "p", "u", "t", " ", "s", "h", "o",
                                                "u", "l", "d", " ", "b", "e", " ", "a", " ",
                                                "v", "a", "l", "i", "d", " ", "n", "u", "m",
                                                "b", "e", "r">>,
                                            IF kind = "int" THEN <<"i", "n", "t", "_", "t",
                                                "y", "p", "e">>
                                            ELSE <<"f", "l", "o", "a", "t", "_", "t", "y", "p",
                                                "e">>,
                                            value.v[bad[k]])],
                   value |-> None]
             ELSE [errors |-> <<>>,
                   value |-> List([i \in 1..Len(value.v) |->
                                     [t |-> kind, n |-> value.v[i].n]])]

\* A required field of a model built from the dict kwargs.
required_list(kwargs, key, kind) ==
    IF key \in DOMAIN kwargs THEN list_field(KeyChars[key], kwargs[key], kind)
    ELSE [errors |-> <<line_error(KeyChars[key], <<"F", "i", "e", "l", "d", " ", "r", "e", "q",
        "u", "i", "r", "e", "d">>, <<"m", "i", "s", "s",
        "i", "n", "g">>, kwargs)>>,
          value |-> None]

\* SparseVector(**kwargs) for a dict kwargs, lines 5-7
new_SparseVector(kwargs) ==
    LET indices == required_list(kwargs, "indices", "int")
        values == required_list(kwargs, "values", "float")
    IN  IF indices.errors \o values.errors # <<>>
        THEN Raises(ValidationError(<<"S", "p", "a", "r", "s", "e", "V", "e", "c", "t", "o", "r">>, indices.errors \o values.errors), <<>>)
        ELSE Returns(SparseVector(indices.value, values.value), <<>>)

\* QueryEmbeddings(dense=dense, sparse_bm25=sparse_bm25) for a sparse_bm25
\* that is a SparseVector, lines 10-12
new_QueryEmbeddings(dense, sparse_bm25) ==
    LET checked == list_field(<<"d", "e", "n", "s", "e">>, dense, "float")
    IN  CASE sparse_bm25.t = "SparseVector" ->
                IF checked.errors # <<>>
                THEN Raises(ValidationError(<<"Q", "u", "e", "r", "y", "E", "m", "b", "e", "d",
                    "d", "i", "n", "g", "s">>, checked.errors), <<>>)
                ELSE Returns(QueryEmbeddings(checked.value, sparse_bm25), <<>>)

----------------------------------------------------------------------------
(* src/src/service/embeddings_services.py *)

\* dense: what bedrock_client.invoke_model and the decoding of the body of
\* its answer give: an exception whose text is dense.message, or the decoded
\* body dense.body.
_get_bedrock_embedding(text, dense) ==
    LET embedding == subscript(dense.body, "embedding")
        failed(message) ==
            Raises(Exc("RuntimeError",
                       <<"E", "r", "r", "o", " ", "a", "o", " ", "g", "e", "r", "a", "r", " ",
                           "e", "m", "b", "e", "d", "d", "i", "n", "g", " ", "d", "e", "n",
                           "s", "o", " ", "c", "o", "m", " ", "A", "m", "a", "z", "o", "n",
                           " ", "T", "i", "t", "a", "n", ":", " ">> \o message),
                   <<"dense">>)
    IN  IF ~dense.ok THEN failed(dense.message)
        ELSE IF embedding.kind = "raise" THEN failed(embedding.exc.message)
        ELSE Returns(embedding.value, <<"dense">>)

\* SparseVector(**sparse_vector.as_object()) of line 54
sparse_bm25_of(object) ==
    IF IsDict(object) THEN new_SparseVector(object)
    ELSE Raises(Exc("TypeError",
                    <<"s", "r", "c", ".", "m", "o", "d", "e", "l", "s", ".", "e", "m", "b",
                        "e", "d", "d", "i", "n", "g", "s", ".", "S", "p", "a", "r", "s", "e",
                        "V", "e", "c", "t", "o", "r", "(", ")", " ", "a", "r", "g", "u", "m",
                        "e", "n", "t", " ", "a", "f", "t", "e", "r", " ", "*", "*", " ", "m",
                        "u", "s", "t", " ", "b", "e", " ", "a", " ", "m", "a", "p", "p", "i",
                        "n", "g", ",", " ", "n", "o", "t", " ">>
                        \o TypeName(object)), <<>>)

\* The try of lines 45-57 with the sparse call in a try of its own: a failure
\* of the sparse model gives a bundle without the sparse vector.
embeddings_of_SparseOptional(query, backend) ==
    LET dense_vector == _get_bedrock_embedding(query, backend.dense)
        reached == dense_vector.backend \o <<"sparse">>
        failed(message, done) ==
            Raises(Exc("RuntimeError", <<"E", "r", "r", "o", " ", "a", "o", " ", "g", "e", "r",
                "a", "r", " ", "e", "m", "b", "e", "d", "d", "i", "n", "g", "s", ":", " ">> \o message), done)
        sparse_bm25 == sparse_bm25_of(backend.sparse.vector)
        dense == list_field(<<"d", "e", "n", "s", "e">>, dense_vector.value, "float")
        bundle == new_QueryEmbeddings(dense_vector.value, sparse_bm25.value)
    IN  IF dense_vector.kind = "raise"
        THEN failed(dense_vector.exc.message, dense_vector.backend)
        ELSE IF ~backend.sparse.ok \/ sparse_bm25.kind = "raise"
        THEN IF dense.errors # <<>>
             THEN failed(ValidationError(<<"Q", "u", "e", "r", "y", "E", "m", "b", "e", "d",
                 "d", "i", "n", "g", "s">>, dense.errors).message, reached)
             ELSE Returns(QueryEmbeddings(dense.value, None), reached)
        ELSE IF bundle.kind = "raise" THEN failed(bundle.exc.message, reached)
        ELSE Returns(bundle.value, reached)

\* The try of lines 45-57.  backend.sparse: what the sparse model gives for
\* the query: an exception whose text is sparse.message, or sparse.vector,
\* the as_object() of the embedding.
embeddings_of(query, backend) ==
    LET dense_vector == _get_bedrock_embedding(query, backend.dense)
        reached == dense_vector.backend \o <<"sparse">>
        failed(message, done) ==
            Raises(Exc("RuntimeError", <<"E", "r", "r", "o", " ", "a", "o", " ", "g", "e", "r",
                "a", "r", " ", "e", "m", "b", "e", "d", "d", "i", "n", "g", "s", ":", " ">> \o message), done)
        sparse_bm25 == sparse_bm25_of(backend.sparse.vector)
        bundle == new_QueryEmbeddings(dense_vector.value, sparse_bm25.value)
    IN  IF dense_vector.kind = "raise"
        THEN failed(dense_vector.exc.message, dense_vector.backend)
        ELSE IF ~backend.sparse.ok THEN failed(backend.sparse.message, reached)
        ELSE IF sparse_bm25.kind = "raise" THEN failed(sparse_bm25.exc.message, reached)
        ELSE IF bundle.kind = "raise" THEN failed(bundle.exc.message, reached)
        ELSE Returns(bundle.value, reached)

\* embed_query with `if not query` alone in line 42: a query of blanks passes.
QueryEmbedder_embed_query_OnlyEmptyCheck(query, backend) ==
    IF ~Truthy(query)
    THEN Raises(Exc("ValueError", <<"Q", "u", "e", "r", "y", " ", "n", "ã", "o", " ", "p", "o",
        "d", "e", " ", "s", "e", "r", " ", "v", "a", "z", "i", "a">>), <<>>)
    ELSE embeddings_of(query.v, backend)

QueryEmbedder_embed_query(query, backend) ==
    IF ~Truthy(query)
    THEN Raises(Exc("ValueError", <<"Q", "u", "e", "r", "y", " ", "n", "ã", "o", " ", "p", "o",
        "d", "e", " ", "s", "e", "r", " ", "v", "a", "z", "i", "a">>), <<>>)
    ELSE IF TypeName(query) # <<"s", "t", "r">>
    THEN Raises(no_attribute(query, <<"s", "t", "r", "i", "p">>), <<>>)
    ELSE IF Strip(query.v) = <<>>
    THEN Raises(Exc("ValueError", <<"Q", "u", "e", "r", "y", " ", "n", "ã", "o", " ", "p", "o",
        "d", "e", " ", "s", "e", "r", " ", "v", "a", "z", "i", "a">>), <<>>)
    ELSE embeddings_of(query.v, backend)

----------------------------------------------------------------------------
(* src/src/service/retriever_service.py *)

\* The prefetch of lines 29-40 reads embeddings.dense and calls
\* embeddings.sparse_bm25.model_dump() before query_points is called.
prefetch_readable(embeddings) ==
    /\ ~IsDict(embeddings)
    /\ embeddings.t = "QueryEmbeddings"
    /\ ~IsDict(embeddings.sparse_bm25)
    /\ embeddings.sparse_bm25.t \in {"SparseVector", "QueryEmbeddings", "Document"}

\* Lines 45-48: point.payload.get exists on a dict alone, and Document
\* (models/embeddings.py, lines 15-17) takes a str as page_content and a dict
\* or None as metadata; anything else raises inside the try.
makes_document(payload) ==
    /\ IsDict(payload)
    /\ LET text == Get(payload, "text", Str(<<>>))
           metadata == Get(payload, "metadata", <<>>)
       IN  /\ ~IsDict(text) /\ text.t = "str"
           /\ ~IsDict(metadata) => metadata.t = "None"

\* Document(page_content=point.payload.get("text", ""),
\*          metadata=point.payload.get("metadata", {}))
document_of(payload) ==
    Document(Get(payload, "text", Str(<<>>)).v, Get(payload, "metadata", <<>>))

\* store: what client.query_points gives.  The limit argument is not handed
\* to query_points; the store decides how many points it returns.
\* search_documents with `except Exception` placed first: it also catches
\* UnexpectedResponse, and every failure is reported as 500.
QdrantRetriever_search_documents_ExceptionFirst(embeddings, limit, store) ==
    IF ~prefetch_readable(embeddings)
    THEN Raises(HTTPException(500, <<"I", "n", "t", "e", "r", "n", "a", "l", " ", "s", "e",
        "r", "v", "e", "r", " ", "e", "r", "r", "o", "r">>), <<>>)
    ELSE IF store.kind = "points" /\ \A i \in 1..Len(store.points) : makes_document(store.points[i])
    THEN Returns(List([i \in 1..Len(store.points) |-> document_of(store.points[i])]),
                 <<"store">>)
    ELSE Raises(HTTPException(500, <<"I", "n", "t", "e", "r", "n", "a", "l", " ", "s", "e",
        "r", "v", "e", "r", " ", "e", "r", "r", "o", "r">>), <<"store">>)

\* search_documents that skips the points whose payload has no text.
QdrantRetriever_search_documents_DropsMissingText(embeddings, limit, store) ==
    CASE ~prefetch_readable(embeddings) ->
            Raises(HTTPException(500, <<"I", "n", "t", "e", "r", "n", "a", "l", " ", "s", "e",
                "r", "v", "e", "r", " ", "e", "r", "r", "o", "r">>), <<>>)
      [] prefetch_readable(embeddings) /\ store.kind = "UnexpectedResponse" ->
            Raises(HTTPException(503, <<"S", "e", "a", "r", "c", "h", " ", "s", "e", "r", "v",
                "i", "c", "e", " ", "t", "e", "m", "p", "o", "r", "a", "r", "i", "l", "y", " ",
                "u", "n", "a", "v", "a", "i", "l", "a", "b", "l", "e">>), <<"store">>)
      [] prefetch_readable(embeddings) /\ store.kind = "Exception" ->
            Raises(HTTPException(500, <<"I", "n", "t", "e", "r", "n", "a", "l", " ", "s", "e",
                "r", "v", "e", "r", " ", "e", "r", "r", "o", "r">>), <<"store">>)
      [] prefetch_readable(embeddings) /\ store.kind = "points" ->
            IF \E i \in 1..Len(store.points) : ~makes_document(store.points[i])
            THEN Raises(HTTPException(500, <<"I", "n", "t", "e", "r", "n", "a", "l", " ", "s",
                "e", "r", "v", "e", "r", " ", "e", "r", "r", "o", "r">>), <<"store">>)
            ELSE LET kept == SelectSeq(store.points, LAMBDA payload : "text" \in DOMAIN payload)
                 IN  Returns(List([i \in 1..Len(kept) |-> document_of(kept[i])]),
                             <<"store">>)

QdrantRetriever_search_documents(embeddings, limit, store) ==
    CASE ~prefetch_readable(embeddings) ->
            \* an AttributeError before the store is called, caught by `except Exception`
            Raises(HTTPException(500, <<"I", "n", "t", "e", "r", "n", "a", "l", " ", "s", "e",
                "r", "v", "e", "r", " ", "e", "r", "r", "o", "r">>), <<>>)
      [] prefetch_readable(embeddings) /\ store.kind = "UnexpectedResponse" ->
            Raises(HTTPException(503, <<"S", "e", "a", "r", "c", "h", " ", "s", "e", "r", "v",
                "i", "c", "e", " ", "t", "e", "m", "p", "o", "r", "a", "r", "i", "l", "y", " ",
                "u", "n", "a", "v", "a", "i", "l", "a", "b", "l", "e">>), <<"store">>)
      [] prefetch_readable(embeddings) /\ store.kind = "Exception" ->
            Raises(HTTPException(500, <<"I", "n", "t", "e", "r", "n", "a", "l", " ", "s", "e",
                "r", "v", "e", "r", " ", "e", "r", "r", "o", "r">>), <<"store">>)
      [] prefetch_readable(embeddings) /\ store.kind = "points" ->
            IF \E i \in 1..Len(store.points) : ~makes_document(store.points[i])
            THEN \* an AttributeError or a ValidationError, caught by `except Exception`
                 Raises(HTTPException(500, <<"I", "n", "t", "e", "r", "n", "a", "l", " ", "s",
                     "e", "r", "v", "e", "r", " ", "e", "r", "r", "o", "r">>), <<"store">>)
            ELSE Returns(List([i \in 1..Len(store.points) |-> document_of(store.points[i])]),
                         <<"store">>)

----------------------------------------------------------------------------
(* src/src/service/llm_service.py *)

\* The ValueError _validate_prompt raises, or None when the prompt is valid.
_validate_prompt(prompt) ==
    IF ~Truthy(prompt) THEN Exc("ValueError", <<"P", "r", "o", "m", "p", "t", " ", "c", "a",
        "n", "n", "o", "t", " ", "b", "e", " ", "N", "o", "n", "e">>)
    ELSE IF TypeName(prompt) # <<"s", "t", "r">> THEN Exc("ValueError", <<"P", "r", "o", "m", "p", "t",
        " ", "m", "u", "s", "t", " ", "b", "e", " ", "a", " ", "s", "t", "r", "i", "n", "g">>)
    ELSE IF Strip(prompt.v) = <<>>
    THEN Exc("ValueError", <<"P", "r", "o", "m", "p", "t", " ", "c", "a", "n", "n", "o", "t",
        " ", "b", "e", " ", "e", "m", "p", "t", "y", " ", "o", "r", " ", "o", "n", "l", "y",
        " ", "w", "h", "i", "t", "e", "s", "p", "a", "c", "e">>)
    ELSE None

\* x.get(key, default); only a dict has the method
dict_get(x, key, default) ==
    IF IsDict(x) THEN Returns(Get(x, key, default), <<>>)
    ELSE Raises(no_attribute(x, <<"g", "e", "t">>), <<>>)

\* x[0] of a value that is truthy
first_item(x) ==
    IF IsDict(x) THEN Raises(Exc("KeyError", <<"0">>), <<>>)
    ELSE CASE x.t = "list" -> Returns(x.v[1], <<>>)
           [] x.t = "str"  -> Returns(Str(<<x.v[1]>>), <<>>)
           [] x.t \in {"int", "bool"} ->
                Raises(Exc("TypeError",
                           <<"'">> \o TypeName(x) \o <<"'", " ", "o", "b", "j", "e", "c", "t",
                               " ", "i", "s", " ", "n", "o", "t", " ", "s", "u", "b", "s", "c",
                               "r", "i", "p", "t", "a", "b", "l", "e">>), <<>>)

\* response_body['completions'][0].get('data', {}).get('text'), line 98
completions_text(response_body) ==
    LET first == first_item(response_body["completions"])
        data == IF first.kind = "raise" THEN first ELSE dict_get(first.value, "data", <<>>)
    IN  IF data.kind = "raise" THEN data ELSE dict_get(data.value, "text", None)

\* response_body['results'][0].get('outputText'), line 100
results_text(response_body) ==
    LET first == first_item(response_body["results"])
    IN  IF first.kind = "raise" THEN first ELSE dict_get(first.value, "outputText", None)

\* key in x for x a list or a str
member_of(key, x) ==
    CASE x.t = "list" ->
            \E i \in 1..Len(x.v) :
                ~IsDict(x.v[i]) /\ x.v[i].t = "str" /\ x.v[i].v = key
      [] x.t = "str" -> Contains(x.v, key)

\* Lines 95-104 on a body that is no dict: the membership tests, then the
\* subscription by the key found or the .keys() of the last branch.
extract_from_non_dict(response_body) ==
    IF response_body.t \in {"None", "int", "bool"}
    THEN Raises(Exc("TypeError", <<"a", "r", "g", "u", "m", "e", "n", "t", " ", "o", "f", " ",
        "t", "y", "p", "e", " ", "'">> \o TypeName(response_body)
                                 \o <<"'", " ", "i", "s", " ", "n", "o", "t", " ", "i", "t",
                                     "e", "r", "a", "b", "l", "e">>), <<>>)
    ELSE IF \E key \in {<<"g", "e", "n", "e", "r", "a", "t", "i", "o", "n">>, <<"c", "o", "m", "p", "l", "e", "t", "i", "o", "n",
        "s">>, <<"r", "e", "s", "u", "l", "t", "s">>, <<"o", "u", "t",
        "p", "u", "t">>} :
                member_of(key, response_body)
    THEN Raises(Exc("TypeError",
                    IF response_body.t = "list"
                    THEN <<"l", "i", "s", "t", " ", "i", "n", "d", "i", "c", "e", "s", " ",
                        "m", "u", "s", "t", " ", "b", "e", " ", "i", "n", "t", "e", "g", "e",
                        "r", "s", " ", "o", "r", " ", "s", "l", "i", "c", "e", "s", ",", " ",
                        "n", "o", "t", " ", "s", "t", "r">>
                    ELSE <<"s", "t", "r", "i", "n", "g", " ", "i", "n", "d", "i", "c", "e",
                        "s", " ", "m", "u", "s", "t", " ", "b", "e", " ", "i", "n", "t", "e",
                        "g", "e", "r", "s", ",", " ", "n", "o", "t", " ", "'", "s", "t", "r",
                        "'">>), <<>>)
    ELSE Raises(Exc("AttributeError", <<"'">> \o TypeName(response_body)
                                      \o <<"'", " ", "o", "b", "j", "e", "c", "t", " ", "h",
                                          "a", "s", " ", "n", "o", " ", "a", "t", "t", "r",
                                          "i", "b", "u", "t", "e", " ", "'", "k", "e", "y",
                                          "s", "'">>), <<>>)

\* response_body: what json.loads made of the body of the model's answer
_extract_response_text(response_body) ==
    IF ~IsDict(response_body) THEN extract_from_non_dict(response_body)
    ELSE IF "generation" \in DOMAIN response_body
    THEN Returns(response_body["generation"], <<>>)
    ELSE IF "completions" \in DOMAIN response_body /\ Truthy(response_body["completions"])
    THEN completions_text(response_body)
    ELSE IF "results" \in DOMAIN response_body /\ Truthy(response_body["results"])
    THEN results_text(response_body)
    ELSE IF "output" \in DOMAIN response_body
    THEN dict_get(response_body["output"], "text", None)
    ELSE Returns(None, <<>>)

\* len(x) is defined
HasLen(x) == IsDict(x) \/ x.t \in {"str", "list"}

\* Lines 63-70 and the handlers of lines 72-82: a text that could not be
\* extracted, or whose length cannot be logged, leaves None.
generated_text(response_body) ==
    LET extracted == _extract_response_text(response_body)
    IN  IF extracted.kind = "raise" THEN None
        ELSE IF Truthy(extracted.value) /\ ~HasLen(extracted.value) THEN None
        ELSE extracted.value

\* Lines 73-75, the handler of ClientError: it reads the code and the message
\* of the error from e.response.  What the reading raises is raised inside
\* the handler, where no other handler of the try catches it.
client_error_read(response) ==
    LET error == subscript(response, "Error")
        error_code == subscript(error.value, "Code")
        error_message == subscript(error.value, "Message")
    IN  IF error.kind = "raise" THEN error
        ELSE IF error_code.kind = "raise" THEN error_code
        ELSE error_message

\* model: what bedrock_client.invoke_model and the decoding of its body give:
\* a ClientError whose response is model.response, a JSONDecodeError, another
\* exception, or the decoded body model.body.
LLMService_generate_response(prompt, model) ==
    IF _validate_prompt(prompt) # None
    THEN Raises(_validate_prompt(prompt), <<>>)
    ELSE IF model.kind = "ClientError"
    THEN IF client_error_read(model.response).kind = "raise"
         THEN Raises(client_error_read(model.response).exc, <<"model">>)
         ELSE Returns(None, <<"model">>)
    ELSE IF model.kind \in {"JSONDecodeError", "Exception"}
    THEN Returns(None, <<"model">>)
    ELSE Returns(generated_text(model.body), <<"model">>)

----------------------------------------------------------------------------
(* src/src/core/agent.py *)

json_dumps(obj) == [t |-> "json", obj |-> obj]

JsonWhitespace == {" ", "\t", "\n", "\r"}

\* The first index from i on at which s has no JSON whitespace, Len(s) + 1
\* when there is none.
SkipJsonWhitespace(s, i) ==
    LET rest == {j \in i..Len(s) : s[j] \notin JsonWhitespace}
    IN  IF rest = {} THEN Len(s) + 1 ELSE CHOOSE j \in rest : \A k \in rest : j <= k

\* json.JSONDecodeError(msg, doc, pos) for the character of s at index i
JSONDecodeError(msg, s, i) ==
    LET newlines == {j \in 1..(i - 1) : s[j] = "\n"}
        last == IF newlines = {} THEN 0 ELSE CHOOSE j \in newlines : \A k \in newlines : j >= k
    IN  Exc("JSONDecodeError",
            msg \o <<":", " ", "l", "i", "n", "e", " ">> \o IntStr(Cardinality(newlines) + 1) \o <<" ", "c", "o", "l",
                "u", "m", "n", " ">>
                \o IntStr(i - last) \o <<" ", "(", "c", "h", "a", "r", " ">> \o IntStr(i - 1) \o <<")">>)

\* s[i:].startswith(word)
StartsAt(s, i, word) ==
    /\ i + Len(word) - 1 <= Len(s)
    /\ SubSeq(s, i, i + Len(word) - 1) = word

\* The JSON value that starts at index i of s and the index after it, or the
\* error of the scanner.  The arms are the values that can be written here:
\* null, true, false, an integer, {} and [].  A text with members, elements,
\* a string, a fraction, an exponent, NaN or Infinity is a json_dumps value
\* in this module and has no arm when given character by character.
json_scan(s, i) ==
    LET Value(v, e) == [ok |-> TRUE, value |-> v, end |-> e]
        Fail(msg, j) == [ok |-> FALSE, exc |-> JSONDecodeError(msg, s, j)]
        inner == SkipJsonWhitespace(s, i + 1)
        first == IF s[i] = "-" THEN i + 1 ELSE i
        has_int == first <= Len(s) /\ IsDigit(s[first])
        after == {j \in first..Len(s) : ~IsDigit(s[j])}
        digits_end == IF after = {} THEN Len(s) + 1
                      ELSE CHOOSE j \in after : \A k \in after : j <= k
        int_end == IF s[first] = "0" THEN first + 1 ELSE digits_end
        is_float ==
            \/ int_end + 1 <= Len(s) /\ s[int_end] = "." /\ IsDigit(s[int_end + 1])
            \/ /\ int_end + 1 <= Len(s) /\ s[int_end] \in {"e", "E"}
               /\ \/ IsDigit(s[int_end + 1])
                  \/ /\ int_end + 2 <= Len(s) /\ s[int_end + 1] \in {"+", "-"}
                     /\ IsDigit(s[int_end + 2])
        magnitude == DecimalValue(SubSeq(s, first, int_end - 1))
    IN  CASE i > Len(s) -> Fail(<<"E", "x", "p", "e", "c", "t", "i", "n", "g", " ", "v", "a",
        "l", "u", "e">>, i)
          [] i <= Len(s) /\ s[i] = "{" /\ inner <= Len(s) /\ s[inner] = "}" ->
                Value(<<>>, inner + 1)
          [] i <= Len(s) /\ s[i] = "{" /\ (inner > Len(s) \/ s[inner] \notin {"}", "\""}) ->
                Fail(<<"E", "x", "p", "e", "c", "t", "i", "n", "g", " ", "p", "r", "o", "p",
                    "e", "r", "t", "y", " ", "n", "a", "m", "e", " ", "e", "n", "c", "l", "o",
                    "s", "e", "d", " ", "i", "n", " ", "d", "o", "u", "b", "l", "e", " ", "q",
                    "u", "o", "t", "e", "s">>, inner)
          [] i <= Len(s) /\ s[i] = "[" /\ inner <= Len(s) /\ s[inner] = "]" ->
                Value(List(<<>>), inner + 1)
          [] i <= Len(s) /\ s[i] = "[" /\ inner > Len(s) -> Fail(<<"E", "x", "p", "e", "c",
              "t", "i", "n", "g", " ", "v", "a", "l", "u", "e">>, inner)
          [] i <= Len(s) /\ s[i] = "[" /\ inner <= Len(s) /\ s[inner] # "]"
               /\ ~IsDigit(s[inner])
               /\ s[inner] \notin {"\"", "{", "[", "-", "n", "t", "f", "N", "I"} ->
                Fail(<<"E", "x", "p", "e", "c", "t", "i", "n", "g", " ", "v", "a", "l", "u", "e">>, inner)
          [] StartsAt(s, i, <<"n", "u", "l", "l">>) -> Value(None, i + 4)
          [] StartsAt(s, i, <<"t", "r", "u", "e">>) -> Value(Bool(TRUE), i + 4)
          [] StartsAt(s, i, <<"f", "a", "l", "s", "e">>) -> Value(Bool(FALSE), i + 5)
          [] i <= Len(s) /\ s[i] = "n" /\ ~StartsAt(s, i, <<"n", "u", "l", "l">>) ->
                Fail(<<"E", "x", "p", "e", "c", "t", "i", "n", "g", " ", "v", "a", "l", "u", "e">>, i)
          [] i <= Len(s) /\ s[i] = "t" /\ ~StartsAt(s, i, <<"t", "r", "u", "e">>) ->
                Fail(<<"E", "x", "p", "e", "c", "t", "i", "n", "g", " ", "v", "a", "l", "u", "e">>, i)
          [] i <= Len(s) /\ s[i] = "f" /\ ~StartsAt(s, i, <<"f", "a", "l", "s", "e">>) ->
                Fail(<<"E", "x", "p", "e", "c", "t", "i", "n", "g", " ", "v", "a", "l", "u", "e">>, i)
          [] i <= Len(s) /\ s[i] = "N" /\ ~StartsAt(s, i, <<"N", "a", "N">>) ->
                Fail(<<"E", "x", "p", "e", "c", "t", "i", "n", "g", " ", "v", "a", "l", "u", "e">>, i)
          [] i <= Len(s) /\ s[i] = "I"
               /\ ~StartsAt(s, i, <<"I", "n", "f", "i", "n", "i", "t", "y">>) ->
                Fail(<<"E", "x", "p", "e", "c", "t", "i", "n", "g", " ", "v", "a", "l", "u", "e">>, i)
          [] i <= Len(s) /\ s[i] = "-" /\ ~has_int
               /\ ~StartsAt(s, i, <<"-", "I", "n", "f", "i", "n", "i", "t", "y">>) ->
                Fail(<<"E", "x", "p", "e", "c", "t", "i", "n", "g", " ", "v", "a", "l", "u", "e">>, i)
          [] i <= Len(s) /\ has_int /\ ~is_float ->
                Value(PyInt(IF s[i] = "-" THEN 0 - magnitude ELSE magnitude), int_end)
          [] i <= Len(s) /\ ~IsDigit(s[i])
               /\ s[i] \notin {"\"", "{", "[", "-", "n", "t", "f", "N", "I"} ->
                Fail(<<"E", "x", "p", "e", "c", "t", "i", "n", "g", " ", "v", "a", "l", "u", "e">>, i)

\* json.loads(s): s is the str json_dumps wrote, or a str given character by
\* character, or not a str.
json_loads(s) ==
    IF ~IsDict(s) /\ s.t = "json" THEN Returns(s.obj, <<>>)
    ELSE IF IsDict(s) \/ s.t # "str"
    THEN Raises(Exc("TypeError", <<"t", "h", "e", " ", "J", "S", "O", "N", " ", "o", "b", "j",
        "e", "c", "t", " ", "m", "u", "s", "t", " ", "b", "e", " ", "s", "t", "r", ",", " ",
        "b", "y", "t", "e", "s", " ", "o", "r", " ", "b", "y", "t", "e", "a", "r", "r", "a",
        "y", ",", " ", "n", "o", "t", " ">>
                                   \o TypeName(s)), <<>>)
    ELSE IF s.v # <<>> /\ s.v[1] = "﻿"
    THEN Raises(JSONDecodeError(<<"U", "n", "e", "x", "p", "e", "c", "t", "e", "d", " ", "U",
        "T", "F", "-", "8", " ", "B", "O", "M", " ", "(", "d", "e", "c", "o", "d", "e", " ",
        "u", "s", "i", "n", "g", " ", "u", "t", "f", "-", "8", "-", "s", "i", "g", ")">>, s.v, 1), <<>>)
    ELSE LET scanned == json_scan(s.v, SkipJsonWhitespace(s.v, 1))
             end == SkipJsonWhitespace(s.v, scanned.end)
         IN  IF ~scanned.ok THEN Raises(scanned.exc, <<>>)
             ELSE IF end <= Len(s.v) THEN Raises(JSONDecodeError(<<"E", "x", "t", "r", "a",
                 " ", "d", "a", "t", "a">>, s.v, end), <<>>)
             ELSE Returns(scanned.value, <<>>)

\* error_info = json.loads(state.get('error')) and the .get of line 107,
\* which only a dict has.
load_error_info(state) ==
    LET error_info == json_loads(Get(state, "error", None))
    IN  IF error_info.kind = "raise" THEN error_info
        ELSE IF ~IsDict(error_info.value)
        THEN dict_get(error_info.value, "node", <<"d", "e", "s", "c", "o", "n", "h", "e", "c",
            "i", "d", "o">>)
        ELSE error_info

\* What a node gives back to the graph: the partial state it returns and the
\* collaborator calls it made, or the exception that escapes it.
NodeReturn(out, made) == [kind |-> "return", out |-> out, calls |-> made]

NodeRaise(e, made) == [kind |-> "raise", exc |-> e, calls |-> made]

Call(target, arg, collaborator, result) ==
    [target |-> target, arg |-> arg, collaborator |-> collaborator, result |-> result]

retrieval_limit == 10

embed_query(query_embedder, query) ==
    IF query_embedder.impl = "service"
    THEN QueryEmbedder_embed_query(query, query_embedder.backend)
    ELSE query_embedder.result

search_documents(qdrant_retriever, embeddings, limit) ==
    IF qdrant_retriever.impl = "service"
    THEN QdrantRetriever_search_documents(embeddings, limit, qdrant_retriever.backend)
    ELSE qdrant_retriever.result

generate_response(llm_service, prompt) ==
    IF llm_service.impl = "service"
    THEN LLMService_generate_response(prompt, llm_service.backend)
    ELSE llm_service.result

\* The apology of line 107 with the traceback added: the user would see it.
ApologyText_WithDetails(error_info) ==
    <<"D", "e", "s", "c", "u", "l", "p", "e", ",", " ", "o", "c", "o", "r", "r", "e", "u", " ",
        "u", "m", " ", "e", "r", "r", "o", " ", "n", "o", " ", "p", "a", "s", "s", "o", " ", "'">> \o Get(error_info, "node", <<"d", "e", "s", "c",
        "o", "n", "h", "e", "c", "i", "d", "o">>)
        \o <<"'", ":", " ">> \o Get(error_info, "message", <<"E", "r", "r", "o", " ", "i", "n", "t",
            "e", "r", "n", "o", ".">>)
        \o Get(error_info, "details", <<>>)

\* The apology with the fixed fallback text in place of the error's message.
ApologyText_WithoutMessage(error_info) ==
    <<"D", "e", "s", "c", "u", "l", "p", "e", ",", " ", "o", "c", "o", "r", "r", "e", "u", " ",
        "u", "m", " ", "e", "r", "r", "o", " ", "n", "o", " ", "p", "a", "s", "s", "o", " ", "'">> \o Get(error_info, "node", <<"d", "e", "s", "c",
        "o", "n", "h", "e", "c", "i", "d", "o">>)
        \o <<"'", ":", " ">> \o <<"E", "r", "r", "o", " ", "i", "n", "t", "e", "r", "n", "o", ".">>

\* The user-facing text built from a prior error.
ApologyText(error_info) ==
    <<"D", "e", "s", "c", "u", "l", "p", "e", ",", " ", "o", "c", "o", "r", "r", "e", "u", " ",
        "u", "m", " ", "e", "r", "r", "o", " ", "n", "o", " ", "p", "a", "s", "s", "o", " ", "'">> \o Get(error_info, "node", <<"d", "e", "s", "c",
        "o", "n", "h", "e", "c", "i", "d", "o">>)
        \o <<"'", ":", " ">> \o Get(error_info, "message", <<"E", "r", "r", "o", " ", "i", "n", "t",
            "e", "r", "n", "o", ".">>)

\* The skip of line 62 written with the "error": None of the success return.
skipped_retrieval_ClearsError ==
    [retrieved_docs |-> List(<<>>), context |-> Str(<<>>), error |-> None]

\* The skip of line 62 also resetting the embedding.
skipped_retrieval_ResetsEmbedding ==
    [retrieved_docs |-> List(<<>>), context |-> Str(<<>>), query_embedding |-> None]

\* What retrieve_documents returns when a prior error is set.
skipped_retrieval == [retrieved_docs |-> List(<<>>), context |-> Str(<<>>)]

\* The return of line 107 written with the "error": None of the success return.
skipped_generation_ClearsError(error_info) ==
    [response |-> Str(ApologyText(error_info)), error |-> None]

\* The return of line 107 with lines 121-123 applied to the apology.
skipped_generation_WithDisclaimer(error_info) ==
    [response |-> Str(IF should_include_disclaimer(ApologyText(error_info))
                      THEN ApologyText(error_info) \o get_disclaimer
                      ELSE ApologyText(error_info))]

\* What generate_response returns when a prior error is set.
skipped_generation(error_info) == [response |-> Str(ApologyText(error_info))]

\* generate_response without the guard of line 104.
generate_sees_error_Never(state) == FALSE

\* if state.get('error'), line 104
generate_sees_error(state) == Truthy(Get(state, "error", None))

\* `if response_text is None` in place of `if not response_text`.
no_response_text_OnlyNone(response_text) == response_text = None

\* if not response_text, line 117
no_response_text(response_text) == ~Truthy(response_text)

\* The disclaimer appended whatever should_include_disclaimer says.
final_response_Always(response_text) == response_text \o get_disclaimer

\* lines 121-123
final_response(response_text) ==
    IF should_include_disclaimer(response_text)
    THEN response_text \o get_disclaimer
    ELSE response_text

\* query[:100] of line 36: the TypeError of a value that takes no slice, None
\* for a str or a list.  A dict takes the slice as a key, and what that
\* raises depends on the version of the interpreter: it has no case here.
slice_error(x) ==
    CASE ~IsDict(x) /\ x.t \in {"str", "json", "list"} -> None
      [] ~IsDict(x) /\ x.t \notin {"str", "json", "list"} ->
            Exc("TypeError", <<"'">> \o TypeName(x) \o <<"'", " ", "o", "b", "j", "e", "c",
                "t", " ", "i", "s", " ", "n", "o", "t", " ", "s", "u", "b", "s", "c", "r", "i",
                "p", "t", "a", "b", "l", "e">>)

\* embed_query_node without the check of lines 44-45: an empty result of the
\* embedder is returned as the embedding, with error None.
embed_query_node_AcceptsEmpty(state, query_embedder, error_details) ==
    LET query == Get(state, "query", None)
        embeddings == embed_query(query_embedder, query)
        made == <<Call("embed_query", query, query_embedder, embeddings)>>
    IN  IF ~Truthy(query)
        THEN NodeReturn([error |-> json_dumps([node |-> <<"e", "m", "b", "e", "d", "_", "q",
            "u", "e", "r", "y">>,
                                               message |-> <<"Q", "u", "e", "r", "y", " ", "n",
                                                   "ã", "o", " ", "e", "n", "c", "o", "n", "t",
                                                   "r", "a", "d", "a", " ", "n", "o", " ", "e",
                                                   "s", "t", "a", "d", "o", ".">>])],
                        <<>>)
        ELSE IF slice_error(query) # None
        THEN NodeReturn([error |-> json_dumps([node |-> <<"e", "m", "b", "e", "d", "_", "q",
            "u", "e", "r", "y">>,
                                               message |-> slice_error(query).message,
                                               details |-> error_details])], <<>>)
        ELSE IF embeddings.kind = "raise"
        THEN NodeReturn([error |-> json_dumps([node |-> <<"e", "m", "b", "e", "d", "_", "q",
            "u", "e", "r", "y">>,
                                               message |-> embeddings.exc.message,
                                               details |-> error_details])], made)
        ELSE NodeReturn([query_embedding |-> embeddings.value, error |-> None], made)

\* error_details is what traceback.format_exc() renders in the except block.
embed_query_node(state, query_embedder, error_details) ==
    LET query == Get(state, "query", None)
        embeddings == embed_query(query_embedder, query)
        made == <<Call("embed_query", query, query_embedder, embeddings)>>
        failed(message, done) ==
            NodeReturn([error |-> json_dumps([node |-> <<"e", "m", "b", "e", "d", "_", "q",
                "u", "e", "r", "y">>,
                                              message |-> message,
                                              details |-> error_details])], done)
    IN  IF ~Truthy(query)
        THEN NodeReturn([error |-> json_dumps([node |-> <<"e", "m", "b", "e", "d", "_", "q",
            "u", "e", "r", "y">>,
                                               message |-> <<"Q", "u", "e", "r", "y", " ", "n",
                                                   "ã", "o", " ", "e", "n", "c", "o", "n", "t",
                                                   "r", "a", "d", "a", " ", "n", "o", " ", "e",
                                                   "s", "t", "a", "d", "o", ".">>])],
                        <<>>)
        ELSE IF slice_error(query) # None THEN failed(slice_error(query).message, <<>>)
        ELSE IF embeddings.kind = "raise" THEN failed(embeddings.exc.message, made)
        ELSE IF ~Truthy(embeddings.value)
        THEN failed(<<"F", "a", "l", "h", "a", " ", "a", "o", " ", "g", "e", "r", "a", "r",
            " ", "e", "m", "b", "e", "d", "d", "i", "n", "g", "s", " ", "(", "r", "e", "s",
            "u", "l", "t", "a", "d", "o", " ", "v", "a", "z", "i", "o", ")", ".">>, made)
        ELSE NodeReturn([query_embedding |-> embeddings.value, error |-> None], made)

ContextSeparator == <<"\n", "\n", "-", "-", "-", "\n", "\n">>

\* len(retrieved_documents) of line 77 and doc.page_content of line 80 on
\* what the retriever returned: the exception they raise, None when they
\* raise none.
documents_error(value) ==
    IF IsDict(value)
    THEN IF DOMAIN value = {} THEN None ELSE no_attribute(Str(<<>>), <<"p", "a", "g", "e", "_",
        "c", "o", "n", "t", "e", "n", "t">>)
    ELSE CASE value.t \in {"None", "int", "bool", "QueryEmbeddings", "Document"} ->
                Exc("TypeError", <<"o", "b", "j", "e", "c", "t", " ", "o", "f", " ", "t", "y",
                    "p", "e", " ", "'">> \o TypeName(value) \o <<"'", " ", "h",
                    "a", "s", " ", "n", "o", " ", "l", "e", "n", "(", ")">>)
           [] value.t = "str" ->
                IF value.v = <<>> THEN None ELSE no_attribute(value, <<"p", "a", "g", "e", "_",
                    "c", "o", "n", "t", "e", "n", "t">>)
           [] value.t = "list" ->
                LET others == {i \in 1..Len(value.v) :
                                  IsDict(value.v[i]) \/ value.v[i].t # "Document"}
                IN  IF others = {} THEN None
                    ELSE no_attribute(value.v[CHOOSE i \in others : \A k \in others : i <= k],
                                      <<"p", "a", "g", "e", "_", "c", "o", "n", "t", "e", "n",
                                          "t">>)

\* The documents the context is built from
documents_in(value) == IF ~IsDict(value) /\ value.t = "list" THEN value.v ELSE <<>>

\* The join of line 81 without its `if doc.page_content` filter.
context_texts_KeepsEmpty(retrieved_documents) ==
    [i \in 1..Len(retrieved_documents) |-> retrieved_documents[i].page_content]

context_texts(retrieved_documents) ==
    LET kept == SelectSeq(retrieved_documents, LAMBDA doc : doc.page_content # <<>>)
    IN  [i \in 1..Len(kept) |-> kept[i].page_content]

\* retrieve_documents_node without the check of lines 64-68: the retriever
\* is called with whatever the state holds as query_embedding.
retrieve_documents_node_NoBundleCheck(state, qdrant_retriever, error_details) ==
    LET query_embedding == Get(state, "query_embedding", None)
        retrieved_documents == search_documents(qdrant_retriever, query_embedding, retrieval_limit)
        made == <<Call("search_documents", query_embedding, qdrant_retriever, retrieved_documents)>>
        failed(message) ==
            NodeReturn([retrieved_docs |-> List(<<>>), context |-> Str(<<>>),
                        error |-> json_dumps([node |-> <<"r", "e", "t", "r", "i", "e", "v",
                            "e", "_", "d", "o", "c", "u", "m", "e", "n", "t", "s">>,
                                              message |-> message,
                                              details |-> error_details])], made)
    IN  IF Truthy(Get(state, "error", None))
        THEN NodeReturn(skipped_retrieval, <<>>)
        ELSE IF retrieved_documents.kind = "raise" THEN failed(retrieved_documents.exc.message)
        ELSE IF documents_error(retrieved_documents.value) # None
        THEN failed(documents_error(retrieved_documents.value).message)
        ELSE NodeReturn([retrieved_docs |-> retrieved_documents.value,
                         context |-> Str(Join(ContextSeparator,
                                              context_texts(documents_in(retrieved_documents.value)))),
                         error |-> None], made)

retrieve_documents_node(state, qdrant_retriever, error_details) ==
    LET query_embedding == Get(state, "query_embedding", None)
        retrieved_documents == search_documents(qdrant_retriever, query_embedding, retrieval_limit)
        made == <<Call("search_documents", query_embedding, qdrant_retriever, retrieved_documents)>>
        failed(message) ==
            NodeReturn([retrieved_docs |-> List(<<>>), context |-> Str(<<>>),
                        error |-> json_dumps([node |-> <<"r", "e", "t", "r", "i", "e", "v",
                            "e", "_", "d", "o", "c", "u", "m", "e", "n", "t", "s">>,
                                              message |-> message,
                                              details |-> error_details])], made)
    IN  IF Truthy(Get(state, "error", None))
        THEN NodeReturn(skipped_retrieval, <<>>)
        ELSE IF ~Truthy(query_embedding)
        THEN NodeReturn([retrieved_docs |-> List(<<>>), context |-> Str(<<>>),
                         error |-> json_dumps([node |-> <<"r", "e", "t", "r", "i", "e", "v",
                             "e", "_", "d", "o", "c", "u", "m", "e", "n", "t", "s">>,
                                               message |-> <<"O", "b", "j", "e", "t", "o", " ",
                                                   "d", "e", " ", "e", "m", "b", "e", "d", "d",
                                                   "i", "n", "g", "s", " ", "n", "ã", "o", " ",
                                                   "e", "n", "c", "o", "n", "t", "r", "a", "d",
                                                   "o", " ", "n", "o", " ", "e", "s", "t", "a",
                                                   "d", "o", ".">>])],
                        <<>>)
        ELSE IF retrieved_documents.kind = "raise" THEN failed(retrieved_documents.exc.message)
        ELSE IF documents_error(retrieved_documents.value) # None
        THEN failed(documents_error(retrieved_documents.value).message)
        ELSE NodeReturn([retrieved_docs |-> retrieved_documents.value,
                         context |-> Str(Join(ContextSeparator,
                                              context_texts(documents_in(retrieved_documents.value)))),
                         error |-> None], made)

\* x.lower() of a value that is not a str
lower_missing(x) == no_attribute(x, <<"l", "o", "w", "e", "r">>)

\* generate_response_node with the try of lines 112-131 missing: an exception
\* of the LLM call escapes the node.
generate_response_node_NoTry(state, llm_service, error_details) ==
    LET query == Get(state, "query", None)
        context == Get(state, "context", Str(<<>>))
        prompt == Str(format_rag_prompt(query.v, context))
        response_text == generate_response(llm_service, prompt)
        made == <<Call("generate_response", prompt, llm_service, response_text)>>
    IN  IF generate_sees_error(state)
        THEN LET error_info == load_error_info(state)
             IN  IF error_info.kind = "raise" THEN NodeRaise(error_info.exc, <<>>)
                 ELSE NodeReturn(skipped_generation(error_info.value), <<>>)
        ELSE IF TypeName(query) # <<"s", "t", "r">>
        THEN NodeRaise(lower_missing(query), <<>>)
        ELSE IF Truthy(context) /\ TypeName(context) # <<"s", "t", "r">>
        THEN NodeRaise(no_attribute(context, <<"s", "t", "r", "i", "p">>), <<>>)
        ELSE IF response_text.kind = "raise" THEN NodeRaise(response_text.exc, made)
        ELSE IF no_response_text(response_text.value)
        THEN NodeRaise(Exc("ValueError", <<"F", "a", "l", "h", "a", " ", "a", "o", " ", "g",
            "e", "r", "a", "r", " ", "r", "e", "s", "p", "o", "s", "t", "a", " ", "d", "o",
            " ", "L", "L", "M", " ", "(", "r", "e", "s", "p", "o", "s", "t", "a", " ", "v",
            "a", "z", "i", "a", ")", ".">>), made)
        ELSE IF TypeName(response_text.value) # <<"s", "t", "r">>
        THEN NodeRaise(lower_missing(response_text.value), made)
        ELSE NodeReturn([response |-> Str(final_response(response_text.value.v)),
                         error |-> None], made)

generate_response_node(state, llm_service, error_details) ==
    LET query == Get(state, "query", None)
        context == Get(state, "context", Str(<<>>))
        prompt == Str(format_rag_prompt(query.v, context))
        response_text == generate_response(llm_service, prompt)
        made == <<Call("generate_response", prompt, llm_service, response_text)>>
        failed(message, done) ==
            NodeReturn([response |-> None,
                        error |-> json_dumps([node |-> <<"g", "e", "n", "e", "r", "a", "t",
                            "e", "_", "r", "e", "s", "p", "o", "n", "s", "e">>,
                                              message |-> message,
                                              details |-> error_details])], done)
    IN  IF generate_sees_error(state)
        THEN LET error_info == load_error_info(state)
             IN  IF error_info.kind = "raise" THEN NodeRaise(error_info.exc, <<>>)
                 ELSE NodeReturn(skipped_generation(error_info.value), <<>>)
        ELSE IF TypeName(query) # <<"s", "t", "r">>
        THEN failed(lower_missing(query).message, <<>>)
        ELSE IF Truthy(context) /\ TypeName(context) # <<"s", "t", "r">>
        THEN failed(no_attribute(context, <<"s", "t", "r", "i", "p">>).message, <<>>)
        ELSE IF response_text.kind = "raise" THEN failed(response_text.exc.message, made)
        ELSE IF no_response_text(response_text.value)
        THEN failed(<<"F", "a", "l", "h", "a", " ", "a", "o", " ", "g", "e", "r", "a", "r",
            " ", "r", "e", "s", "p", "o", "s", "t", "a", " ", "d", "o", " ", "L", "L", "M",
            " ", "(", "r", "e", "s", "p", "o", "s", "t", "a", " ", "v", "a", "z", "i", "a",
            ")", ".">>, made)
        ELSE IF TypeName(response_text.value) # <<"s", "t", "r">>
        THEN failed(lower_missing(response_text.value).message, made)
        ELSE NodeReturn([response |-> Str(final_response(response_text.value.v)),
                         error |-> None], made)

\* add_edge("retrieve_documents", END): the generate stage is never reached.
Edge_SkipsGenerate(node) ==
    CASE node = "embed_query"        -> "retrieve_documents"
      [] node = "retrieve_documents" -> "END"
      [] node = "generate_response"  -> "END"

\* workflow.set_entry_point / add_edge
EntryPoint == "embed_query"

Edge(node) ==
    CASE node = "embed_query"        -> "retrieve_documents"
      [] node = "retrieve_documents" -> "generate_response"
      [] node = "generate_response"  -> "END"

\* The graph writes the keys a node returned and keeps the others.
Merge(state, out) ==
    [k \in DOMAIN state \cup DOMAIN out |-> IF k \in DOMAIN out THEN out[k] ELSE state[k]]

----------------------------------------------------------------------------
(* The environment: requests, collaborators and what their backends do.     *)

MaxPoints == 3   \* the most points the store returns for one search

Runs == {"r1", "r2"}

\* Two requests in flight draw their collaborators from the reduced pools.
Concurrent == Cardinality(DOMAIN pc) > 1

Q_empty == <<>>
Q_blank == <<" ">>
Q_oi == <<"O", "i">>
Q_milho == <<"m", "i", "l", "h", "o">>

Queries == {Q_empty, Q_blank, Q_oi, Q_milho}

\* The state a caller hands to invoke: every key (streamlit_app.py,
\* test_agent.py) or only the query (api/main.py, test_qdrant_retrieval.py).
InitialState(query, shape) ==
    IF shape = "full"
    THEN [query |-> Str(query), filters |-> None, query_embedding |-> None,
          retrieved_docs |-> List(<<>>), context |-> Str(<<>>), response |-> None,
          error |-> None]
    ELSE [query |-> Str(query)]

Shapes == {"full", "minimal"}

\* traceback.format_exc() depends on where the code is installed and on the
\* call stack, not only on the exception.
Tracebacks == {<<"T", "r", "a", "c", "e", "b", "a", "c", "k", " ", "(", "m", "o", "s", "t",
    " ", "r", "e", "c", "e", "n", "t", " ", "c", "a", "l", "l", " ", "l", "a", "s", "t", ")",
    ":", " ", "A">>, <<"T", "r", "a", "c", "e", "b", "a",
    "c", "k", " ", "(", "m", "o", "s", "t", " ", "r", "e", "c", "e", "n", "t", " ", "c", "a",
    "l", "l", " ", "l", "a", "s", "t", ")", ":", " ", "B">>}

M_credentials == <<"n", "o", " ", "c", "r", "e", "d", "s">>
M_keywords == <<"d", "o", "s", "e", " ", "m", "l">>

Bundle ==
    QueryEmbeddings(List(<<PyFloat(1), PyFloat(2)>>),
                    SparseVector(List(<<PyInt(7)>>), List(<<PyFloat(1)>>)))

\* What the dense backend does: it answers with an embedding, it fails, it
\* answers with a body that has no embedding, and with an embedding that is
\* no list of numbers.
DenseOutcomes ==
    {[ok |-> TRUE, body |-> [embedding |-> List(<<PyFloat(1), PyInt(2)>>)]],
     [ok |-> FALSE, message |-> M_credentials],
     [ok |-> TRUE, body |-> [message |-> Str(M_credentials)]],
     [ok |-> TRUE, body |-> [embedding |-> None]],
     [ok |-> TRUE, body |-> [embedding |-> List(<<PyInt(1), None>>)]]}

\* What the sparse model does: it gives a vector, it fails, and it gives an
\* object that lacks the values, or that is no dict.
SparseOutcomes ==
    {[ok |-> TRUE, vector |-> [indices |-> List(<<PyInt(7)>>), values |-> List(<<PyInt(1)>>)]],
     [ok |-> FALSE, message |-> M_keywords],
     [ok |-> TRUE, vector |-> [indices |-> List(<<PyInt(7)>>)]],
     [ok |-> TRUE, vector |-> None]}

Embedders ==
    IF Concurrent
    THEN {Stub(Returns(Bundle, <<>>)), Stub(Raises(Exc("Exception", M_credentials), <<>>))}
    ELSE {Service([dense |-> d, sparse |-> s]) : d \in DenseOutcomes, s \in SparseOutcomes}
         \cup {Stub(Returns(Bundle, <<>>)), Stub(Returns(None, <<>>)),
               Stub(Raises(Exc("Exception", <<>>), <<>>))}

P_A == <<"A">>
P_B == <<"B", " ">>

\* The payloads of the points the store returns
Payloads == {[text |-> Str(P_A)],
             [text |-> Str(P_B), metadata |-> [source |-> Str(<<"s">>)]],
             [text |-> Str(<<>>)],
             [metadata |-> [source |-> Str(<<"s">>)]]}

SeqsUpTo(S, n) == UNION {[1..k -> S] : k \in 0..n}

Retrievers ==
    IF Concurrent
    THEN {Service([kind |-> "points", points |-> <<>>]),
          Service([kind |-> "points", points |-> <<[text |-> Str(P_A)]>>]),
          Service([kind |-> "UnexpectedResponse"])}
    ELSE {Service([kind |-> "points", points |-> p]) : p \in SeqsUpTo(Payloads, MaxPoints)}
         \cup {Service([kind |-> "points", points |-> <<None>>]),
               Service([kind |-> "points", points |-> <<[text |-> None]>>]),
               Service([kind |-> "points",
                        points |-> <<[text |-> Str(P_A), metadata |-> List(<<>>)]>>]),
               Service([kind |-> "points",
                        points |-> <<[text |-> Str(P_A), metadata |-> None]>>]),
               Service([kind |-> "UnexpectedResponse"]), Service([kind |-> "Exception"]),
               Stub(Returns(None, <<>>)),
               Stub(Raises(Exc("Exception", M_keywords), <<>>))}

T_plain == <<"o", "k">>
T_one == <<"D", "o", "s", "e">>
T_two == <<"D", "O", "S", "E", " ", "m", "l">>

Bodies == {[generation |-> Str(T_plain)], [generation |-> Str(T_one)],
           [generation |-> Str(T_two)], [generation |-> Str(<<>>)], [generation |-> None],
           [generation |-> PyInt(5)],
           [completions |-> List(<<[data |-> [text |-> Str(T_two)]]>>)],
           [completions |-> List(<<>>), results |-> List(<<[outputText |-> Str(T_one)]>>)],
           [output |-> [text |-> Str(T_plain)]],
           [output |-> None],
           [message |-> Str(T_plain)]}

\* The response of a ClientError: with the code and the message of the
\* error, without the message, and without the error.
Throttled ==
    [Error |-> [Code |-> Str(<<"T", "h", "r", "o", "t", "t", "l", "i", "n", "g", "E", "x", "c",
        "e", "p", "t", "i", "o", "n">>),
                Message |-> Str(<<"T", "o", "o", " ", "m", "a", "n", "y", " ", "r", "e", "q",
                    "u", "e", "s", "t", "s">>)]]

ClientErrorResponses ==
    {Throttled,
     [Error |-> [Code |-> Str(<<"T", "h", "r", "o", "t", "t", "l", "i", "n", "g", "E", "x",
         "c", "e", "p", "t", "i", "o", "n">>)]],
     [ResponseMetadata |-> [HTTPStatusCode |-> PyInt(429)]]}

LLMs ==
    IF Concurrent
    THEN {Service([kind |-> "body", body |-> [generation |-> Str(T_two)]]),
          Service([kind |-> "ClientError", response |-> Throttled])}
    ELSE {Service([kind |-> "body", body |-> b]) : b \in Bodies}
         \cup {Service([kind |-> "ClientError", response |-> e]) : e \in ClientErrorResponses}
         \cup {Service([kind |-> k]) : k \in {"JSONDecodeError", "Exception"}}
         \cup {Stub(Raises(Exc("Exception", M_keywords), <<>>))}

----------------------------------------------------------------------------
(* The pipeline: compiled_graph.invoke(initial_state), one node per step.   *)

InitRuns(R) ==
    /\ pc = [r \in R |-> EntryPoint]
    /\ executed = [r \in R |-> <<>>]
    /\ calls = [r \in R |-> <<>>]
    /\ st \in [R -> {InitialState(q, s) : q \in Queries, s \in Shapes}]

Init == InitRuns({"r1"})

InitConcurrent == InitRuns(Runs)

\* The graph with one state dict shared by all invocations: what a node
\* returns is written into the state of every run.
Step_SharedState(r, name, result) ==
    /\ executed' = [executed EXCEPT ![r] = Append(@, name)]
    /\ calls' = [calls EXCEPT ![r] = @ \o result.calls]
    /\ IF result.kind = "raise"
       THEN /\ pc' = [pc EXCEPT ![r] = "RAISED"]
            /\ st' = st
       ELSE /\ pc' = [pc EXCEPT ![r] = Edge(name)]
            /\ st' = [x \in DOMAIN st |-> Merge(st[x], result.out)]

\* Run r executes node `name`; result is what the node function gave.
Step(r, name, result) ==
    /\ executed' = [executed EXCEPT ![r] = Append(@, name)]
    /\ calls' = [calls EXCEPT ![r] = @ \o result.calls]
    /\ IF result.kind = "raise"
       THEN /\ pc' = [pc EXCEPT ![r] = "RAISED"]
            /\ st' = st
       ELSE /\ pc' = [pc EXCEPT ![r] = Edge(name)]
            /\ st' = [st EXCEPT ![r] = Merge(@, result.out)]

EmbedQuery(r) ==
    /\ pc[r] = "embed_query"
    /\ \E query_embedder \in Embedders, tb \in Tracebacks :
          \E result \in {embed_query_node(st[r], query_embedder, tb)} :
              Step(r, "embed_query", result)

RetrieveDocuments(r) ==
    /\ pc[r] = "retrieve_documents"
    /\ \E qdrant_retriever \in Retrievers, tb \in Tracebacks :
          \E result \in {retrieve_documents_node(st[r], qdrant_retriever, tb)} :
              Step(r, "retrieve_documents", result)

GenerateResponse(r) ==
    /\ pc[r] = "generate_response"
    /\ \E llm_service \in LLMs, tb \in Tracebacks :
          \E result \in {generate_response_node(st[r], llm_service, tb)} :
              Step(r, "generate_response", result)

Next ==
    \/ \E r \in DOMAIN pc : EmbedQuery(r)
    \/ \E r \in DOMAIN pc : RetrieveDocuments(r)
    \/ \E r \in DOMAIN pc : GenerateResponse(r)

Spec == Init /\ [][Next]_vars

SpecConcurrent == InitConcurrent /\ [][Next]_vars

----------------------------------------------------------------------------
(* Direct calls: a caller other than the graph (the tests, the scripts and  *)
(* the handlers of the repository) applies one operation of a service to    *)
(* arguments of its own.  pc[c] is "call" before the call and "END" or      *)
(* "RAISED" after it; calls[c] holds the call with its arguments and result *)
(* and st[c], the caller's Agent state, stays empty.                        *)

Callers == {"c1"}

R_none == <<>>
R_dosagem == <<"D", "o", "s", "a", "g", "e", "m">>
R_twice == <<"d", "o", "s", "e", " ", "d", "o", "s", "e">>
R_html == <<"h", "t", "m", "l">>
R_usar == <<"U", "s", "a", "r", " ", "2", " ", "k", "g">>
R_three == <<"d", "o", "s", "e", " ", "m", "l", " ", "k", "g">>

ResponseTexts == {R_none, T_plain, T_one, T_two, R_dosagem, R_twice, R_html, R_usar, R_three}

Q_oi_lower == <<"o", "i">>
Q_oi_padded == <<" ", "O", "I", "\n">>
Q_bom_dia == <<"B", "o", "m", " ", "d", "i", "a">>
Q_dois == <<"d", "o", "i", "s">>
Q_oi_long == <<"o", "i", " ", "a", " ", "b", " ", "c">>
Q_oi_nbsp == <<"o", "i", " ", "a", " ", "b", " ", "c">>

PromptQueries == {Q_empty, Q_blank, Q_oi, Q_oi_lower, Q_oi_padded, Q_bom_dia, Q_dois,
                  Q_oi_long, Q_oi_nbsp, Q_milho}

Contexts == {None, Str(<<>>), Str(<<" ", "\n">>), Str(<<" ", "\f">>), Str(P_A), Str(P_A \o ContextSeparator \o P_B)}

EmbedQueries == {None, Str(Q_empty), Str(Q_blank), Str(<<"\n", "\t">>), Str(Q_oi), Str(Q_milho)}

ServiceEmbedders == {Service([dense |-> d, sparse |-> s]) : d \in DenseOutcomes, s \in SparseOutcomes}

ServiceRetrievers == {r \in Retrievers : r.impl = "service"}

ServiceLLMs == {l \in LLMs : l.impl = "service"}

\* search_documents(self, embeddings, limit: int = 5)
default_limit == 5

Limits == {1, 2, default_limit, retrieval_limit}

\* What search_documents is handed as embeddings: a bundle, nothing, and a
\* bundle without its sparse vector.
SearchEmbeddings == {Bundle, None, QueryEmbeddings(Bundle.dense, None)}

Prompts == {None, PyInt(0), PyInt(5), Str(<<>>), Str(<<" ">>), Str(<<"\n", "\t">>), Str(Q_milho),
            Str(format_rag_prompt(Q_oi, None))}

\* Response bodies with several of the shapes at once, with none, and with
\* a shape whose value is not what line 98, 100 or 102 expects.
ExtractBodies ==
    Bodies \cup
    {[generation |-> Str(T_plain), completions |-> List(<<[data |-> [text |-> Str(T_one)]]>>),
      results |-> List(<<[outputText |-> Str(T_two)]>>), output |-> [text |-> Str(T_two)]],
     [completions |-> List(<<[data |-> [text |-> Str(T_one)]]>>),
      results |-> List(<<[outputText |-> Str(T_two)]>>), output |-> [text |-> Str(T_plain)]],
     [results |-> List(<<[outputText |-> Str(T_two)]>>), output |-> [text |-> Str(T_plain)]],
     [completions |-> List(<<>>), results |-> List(<<>>), output |-> [text |-> Str(T_one)]],
     [completions |-> List(<<>>), results |-> List(<<[outputText |-> Str(T_two)]>>),
      output |-> [text |-> Str(T_plain)]],
     [generation |-> None, output |-> [text |-> Str(T_plain)]],
     [completions |-> List(<<[other |-> Str(T_one)]>>), output |-> [text |-> Str(T_plain)]],
     [results |-> List(<<[other |-> Str(T_one)]>>), output |-> [text |-> Str(T_plain)]],
     [output |-> [other |-> Str(T_plain)]],
     [completions |-> List(<<>>), results |-> List(<<>>)],
     [text |-> Str(T_plain)],
     <<>>,
     [completions |-> List(<<[data |-> None]>>)],
     [completions |-> List(<<None>>), output |-> [text |-> Str(T_plain)]],
     [completions |-> Str(T_plain)],
     [completions |-> [data |-> [text |-> Str(T_one)]]],
     [completions |-> PyInt(5)],
     [completions |-> None, results |-> List(<<None>>)],
     [results |-> Bool(TRUE)],
     [output |-> Str(T_plain)],
     [output |-> List(<<>>)]}

\* States handed to a node called on its own, as the tests of the nodes do:
\* every key or the query alone, with and without a bundle and an error.
PriorError == json_dumps([node |-> <<"e", "m", "b", "e", "d", "_", "q", "u", "e", "r", "y">>, message |-> M_credentials,
                          details |-> <<"T", "r", "a", "c", "e", "b", "a", "c", "k", " ", "(",
                              "m", "o", "s", "t", " ", "r", "e", "c", "e", "n", "t", " ", "c",
                              "a", "l", "l", " ", "l", "a", "s", "t", ")", ":", " ", "A">>])

NodeStates ==
    {InitialState(Q_milho, "minimal"),
     InitialState(Q_milho, "full"),
     Merge(InitialState(Q_milho, "full"), [query_embedding |-> Bundle]),
     Merge(InitialState(Q_milho, "minimal"), [query_embedding |-> Bundle, error |-> None]),
     Merge(InitialState(Q_milho, "full"), [error |-> PriorError]),
     Merge(InitialState(Q_milho, "minimal"), [query_embedding |-> Bundle, error |-> PriorError])}

InitServices ==
    /\ pc = [c \in Callers |-> "call"]
    /\ executed = [c \in Callers |-> <<>>]
    /\ calls = [c \in Callers |-> <<>>]
    /\ st = [c \in Callers |-> <<>>]

\* Caller c makes `call`, which has returned or raised.
Apply(c, call) ==
    /\ pc[c] = "call"
    /\ pc' = [pc EXCEPT ![c] = IF call.result.kind = "raise" THEN "RAISED" ELSE "END"]
    /\ executed' = [executed EXCEPT ![c] = Append(@, call.target)]
    /\ calls' = [calls EXCEPT ![c] = Append(@, call)]
    /\ st' = st

CallShouldIncludeDisclaimer(c) ==
    \E response_text \in ResponseTexts :
        Apply(c, Call("should_include_disclaimer", Str(response_text), None,
                      Returns(Bool(should_include_disclaimer(response_text)), <<>>)))

CallFormatRagPrompt(c) ==
    \E query \in PromptQueries, context \in Contexts :
        Apply(c, Call("format_rag_prompt", [query |-> Str(query), context |-> context], None,
                      Returns(Str(format_rag_prompt(query, context)), <<>>)))

CallEmbedQuery(c) ==
    \E query \in EmbedQueries, query_embedder \in ServiceEmbedders :
        Apply(c, Call("embed_query", query, query_embedder, embed_query(query_embedder, query)))

CallSearchDocuments(c) ==
    \E embeddings \in SearchEmbeddings, limit \in Limits, qdrant_retriever \in ServiceRetrievers :
        Apply(c, Call("search_documents", [embeddings |-> embeddings, limit |-> limit],
                      qdrant_retriever, search_documents(qdrant_retriever, embeddings, limit)))

CallGenerateResponse(c) ==
    \E prompt \in Prompts, llm_service \in ServiceLLMs :
        Apply(c, Call("generate_response", prompt, llm_service,
                      generate_response(llm_service, prompt)))

CallExtractResponseText(c) ==
    \E response_body \in ExtractBodies :
        Apply(c, Call("_extract_response_text", response_body, None,
                      _extract_response_text(response_body)))

\* Caller c calls a node function on a state of its own; result is what the
\* node gave.  The collaborator calls the node made come first in calls[c].
ApplyNode(c, name, state, collaborator, result) ==
    /\ pc[c] = "call"
    /\ pc' = [pc EXCEPT ![c] = IF result.kind = "raise" THEN "RAISED" ELSE "END"]
    /\ executed' = [executed EXCEPT ![c] = Append(@, name)]
    /\ calls' = [calls EXCEPT ![c] =
                    @ \o result.calls
                      \o <<Call(name, state, collaborator,
                                IF result.kind = "raise" THEN Raises(result.exc, <<>>)
                                ELSE Returns(result.out, <<>>))>>]
    /\ st' = st

CallRetrieveDocumentsNode(c) ==
    \E state \in NodeStates, qdrant_retriever \in Retrievers, tb \in Tracebacks :
        ApplyNode(c, "retrieve_documents_node", state, qdrant_retriever,
                  retrieve_documents_node(state, qdrant_retriever, tb))

NextServices ==
    \/ \E c \in DOMAIN pc : CallShouldIncludeDisclaimer(c)
    \/ \E c \in DOMAIN pc : CallFormatRagPrompt(c)
    \/ \E c \in DOMAIN pc : CallEmbedQuery(c)
    \/ \E c \in DOMAIN pc : CallSearchDocuments(c)
    \/ \E c \in DOMAIN pc : CallGenerateResponse(c)
    \/ \E c \in DOMAIN pc : CallExtractResponseText(c)
    \/ \E c \in DOMAIN pc : CallRetrieveDocumentsNode(c)

SpecServices == InitServices /\ [][NextServices]_vars

----------------------------------------------------------------------------
(* src/src/api/main.py: POST /query.  process_query hands                   *)
(* {"query": request.query, "session_id": request.session_id} to            *)
(* graph.ainvoke and answers from the state the graph gives back.           *)
(* session_id is not a key of Agent and is kept out of the state.           *)

DefaultSessionId == <<"d", "e", "f", "a", "u", "l", "t">>

\* QueryResponse(response=..., session_id=..., metadata=...), lines 23-26
\* of models/embeddings.py: response is a required str and metadata a dict;
\* session_id is the str that QueryRequest has validated.
QueryResponse(response, session_id, metadata) ==
    LET errors ==
            (IF TypeName(response) = <<"s", "t", "r">> THEN <<>>
             ELSE <<line_error(<<"r", "e", "s", "p", "o", "n", "s", "e">>, <<"I", "n", "p", "u", "t", " ", "s", "h", "o",
                 "u", "l", "d", " ", "b", "e", " ", "a", " ", "v", "a", "l", "i", "d", " ",
                 "s", "t", "r", "i", "n", "g">>,
                               <<"s", "t", "r", "i", "n", "g", "_", "t", "y", "p", "e">>, response)>>)
            \o (IF IsDict(metadata) THEN <<>>
                ELSE <<line_error(<<"m", "e", "t", "a", "d", "a", "t", "a">>, <<"I", "n", "p", "u", "t", " ", "s", "h",
                    "o", "u", "l", "d", " ", "b", "e", " ", "a", " ", "v", "a", "l", "i", "d",
                    " ", "d", "i", "c", "t", "i", "o", "n", "a", "r", "y">>,
                                  <<"d", "i", "c", "t", "_", "t", "y", "p", "e">>, metadata)>>)
    IN  IF errors # <<>>
        THEN Raises(ValidationError(<<"Q", "u", "e", "r", "y", "R", "e", "s", "p", "o", "n",
            "s", "e">>, errors), <<>>)
        ELSE Returns([response |-> response, session_id |-> Str(session_id),
                      metadata |-> metadata], <<>>)

\* Lines 75-93.  services: what get_services() of lines 28-55 does, it
\* returns the graph or raises what the construction of a service raised;
\* invoked: what graph.ainvoke does, it returns the final state or raises
\* what a node let escape.  Every exception becomes the detail of a 500.
process_query(services, invoked, session_id) ==
    LET answer == QueryResponse(Get(invoked.value, "response", Str(<<"C", "o", "n", "s", "u",
        "l", "t", " ", "f", "a", "i", "l", "e", "d">>)),
                                session_id, Get(invoked.value, "metadata", <<>>))
    IN  IF services.kind = "raise"
        THEN Raises(HTTPException(500, services.exc.message), <<>>)
        ELSE IF invoked.kind = "raise"
        THEN Raises(HTTPException(500, invoked.exc.message), <<>>)
        ELSE IF answer.kind = "raise"
        THEN Raises(HTTPException(500, answer.exc.message), <<>>)
        ELSE answer

\* What the construction of the services raises when it fails.
ServiceFailures == {Exc("NoRegionError", <<"Y", "o", "u", " ", "m", "u", "s", "t", " ", "s",
    "p", "e", "c", "i", "f", "y", " ", "a", " ", "r", "e", "g", "i", "o", "n", ".">>),
                    Exc("Exception", M_credentials)}

\* One request: the graph is invoked on the query alone.
InitApi ==
    /\ InitRuns({"r1"})
    /\ \A r \in DOMAIN st : DOMAIN st[r] = {"query"}

\* Request r is answered by `answer`.
Respond(r, answer) ==
    /\ pc' = [pc EXCEPT ![r] = "RESPONDED"]
    /\ executed' = [executed EXCEPT ![r] = Append(@, "process_query")]
    /\ calls' = [calls EXCEPT ![r] =
                    Append(@, Call("process_query",
                                   [query |-> st[r].query, session_id |-> Str(DefaultSessionId)],
                                   None, answer))]
    /\ st' = st

\* get_services() raises before the graph of request r is invoked.
ProcessQueryWithoutServices(r) ==
    /\ pc[r] = EntryPoint
    /\ executed[r] = <<>>
    /\ \E e \in ServiceFailures :
          Respond(r, process_query(Raises(e, <<>>), Returns(st[r], <<>>), DefaultSessionId))

\* The graph of request r has ended, with the final state or with the
\* exception that generate_response_node let escape (the only one a node
\* lets escape is that of load_error_info), and process_query answers.
ProcessQueryResponds(r) ==
    /\ pc[r] \in {"END", "RAISED"}
    /\ Respond(r, process_query(Returns(None, <<>>),
                                IF pc[r] = "RAISED"
                                THEN Raises(load_error_info(st[r]).exc, <<>>)
                                ELSE Returns(st[r], <<>>),
                                DefaultSessionId))

NextApi ==
    \/ \E r \in DOMAIN pc : EmbedQuery(r)
    \/ \E r \in DOMAIN pc : RetrieveDocuments(r)
    \/ \E r \in DOMAIN pc : GenerateResponse(r)
    \/ \E r \in DOMAIN pc : ProcessQueryWithoutServices(r)
    \/ \E r \in DOMAIN pc : ProcessQueryResponds(r)

SpecApi == InitApi /\ [][NextApi]_vars

----------------------------------------------------------------------------
(* Vocabulary of the properties *)

Order == <<"embed_query", "retrieve_documents", "generate_response">>

ErrorOf(r) == Get(st[r], "error", None)

ErrorSet(r) == Truthy(ErrorOf(r))

\* The name of a node as the str its error record holds.
NodeName(node) ==
    CASE node = "embed_query"        -> <<"e", "m", "b", "e", "d", "_", "q", "u", "e", "r", "y">>
      [] node = "retrieve_documents" -> <<"r", "e", "t", "r", "i", "e", "v", "e", "_", "d",
          "o", "c", "u", "m", "e", "n", "t", "s">>
      [] node = "generate_response"  -> <<"g", "e", "n", "e", "r", "a", "t", "e", "_", "r",
          "e", "s", "p", "o", "n", "s", "e">>

\* The error names `node`.
ErrorNames(r, node) == ErrorSet(r) /\ Get(ErrorOf(r).obj, "node", <<>>) = NodeName(node)

\* s.endswith(suffix)
EndsWith(s, suffix) ==
    /\ Len(suffix) <= Len(s)
    /\ SubSeq(s, Len(s) - Len(suffix) + 1, Len(s)) = suffix

CallsTo(r, target) == SelectSeq(calls[r], LAMBDA c : c.target = target)

\* The collaborator call failed: it raised, or gave the caller nothing.  An
\* empty list of passages is a successful retrieval, not a failure.
FailedCall(c) ==
    \/ c.result.kind = "raise"
    \/ c.target \in {"embed_query", "generate_response"} /\ ~Truthy(c.result.value)
    \/ c.target = "search_documents" /\ c.result.value.t # "list"

StageOf(target) == IF target = "search_documents" THEN "retrieve_documents" ELSE target

\* The message the stage records for a failed call.
MessageOf(c) ==
    CASE c.result.kind = "raise" -> c.result.exc.message
      [] c.target = "embed_query" -> <<"F", "a", "l", "h", "a", " ", "a", "o", " ", "g", "e",
          "r", "a", "r", " ", "e", "m", "b", "e", "d", "d", "i", "n", "g", "s", " ", "(", "r",
          "e", "s", "u", "l", "t", "a", "d", "o", " ", "v", "a", "z", "i", "o", ")", ".">>
      [] c.target = "generate_response" -> <<"F", "a", "l", "h", "a", " ", "a", "o", " ", "g",
          "e", "r", "a", "r", " ", "r", "e", "s", "p", "o", "s", "t", "a", " ", "d", "o", " ",
          "L", "L", "M", " ", "(", "r", "e", "s", "p", "o", "s", "t", "a", " ", "v", "a", "z",
          "i", "a", ")", ".">>
      [] OTHER -> <<"o", "b", "j", "e", "c", "t", " ", "o", "f", " ", "t", "y", "p", "e", " ",
          "'", "N", "o", "n", "e", "T", "y", "p", "e", "'", " ", "h", "a", "s", " ", "n", "o",
          " ", "l", "e", "n", "(", ")">>

\* The embed stage of run r ran and failed (no query, or the embedder failed).
EmbedFailed(r) ==
    /\ Len(executed[r]) >= 1
    /\ \/ ~Truthy(st[r].query)
       \/ CallsTo(r, "embed_query") # <<>> /\ FailedCall(CallsTo(r, "embed_query")[1])

RetrieveFailed(r) ==
    CallsTo(r, "search_documents") # <<>> /\ FailedCall(CallsTo(r, "search_documents")[1])

GenerateFailed(r) ==
    CallsTo(r, "generate_response") # <<>> /\ FailedCall(CallsTo(r, "generate_response")[1])

----------------------------------------------------------------------------
(* C1: in every run, whatever succeeds or fails, the nodes executed so far  *)
(* are a prefix of embed_query, retrieve_documents, generate_response and   *)
(* the run stands at the node that follows that prefix, or at END once all  *)
(* three have run: no node is skipped, reordered or executed twice, and no  *)
(* run is aborted before END by an exception escaping a node.               *)
C1_StagesOnceInOrderToEnd ==
    \A r \in DOMAIN pc :
        /\ Len(executed[r]) <= Len(Order)
        /\ executed[r] = SubSeq(Order, 1, Len(executed[r]))
        /\ pc[r] = IF Len(executed[r]) = Len(Order) THEN "END"
                   ELSE Order[Len(executed[r]) + 1]

\* A run whose embed stage failed has reached END after all three stages.
C1_Witness ==
    \E r \in DOMAIN pc : pc[r] = "END" /\ executed[r] = Order /\ EmbedFailed(r)

(* C2: no node lets an exception escape, and every failed collaborator call *)
(* (an exception of the embedder, the retriever or the LLM, or an empty     *)
(* result of the embedder or the LLM) is recorded in error as the stage's   *)
(* name and the message.                                                    *)
C2_FailuresAreRecorded ==
    \A r \in DOMAIN pc :
        /\ pc[r] # "RAISED"
        /\ \A i \in 1..Len(calls[r]) :
              FailedCall(calls[r][i]) =>
                 /\ ErrorNames(r, StageOf(calls[r][i].target))
                 /\ "message" \in DOMAIN ErrorOf(r).obj
                 /\ ErrorOf(r).obj.message = MessageOf(calls[r][i])

\* The LLM collaborator raised inside the generate stage.
C2_Witness ==
    \E r \in DOMAIN pc :
        /\ pc[r] = "END"
        /\ CallsTo(r, "generate_response") # <<>>
        /\ CallsTo(r, "generate_response")[1].result.kind = "raise"

(* C3: a step of retrieve_documents from a state whose error is set leaves  *)
(* retrieved_docs = [] and context = "" and the error exactly as it was.    *)
C3_RetrieveSkipsOnError ==
    [][\A r \in DOMAIN pc :
          (pc[r] = "retrieve_documents" /\ pc'[r] # pc[r] /\ ErrorSet(r)) =>
             /\ DOMAIN st'[r] = DOMAIN st[r] \cup {"retrieved_docs", "context"}
             /\ st'[r].retrieved_docs = List(<<>>)
             /\ st'[r].context = Str(<<>>)
             /\ st'[r].error = st[r].error]_vars

\* retrieve_documents has just run on a state that carried the embed error
\* and held neither retrieved_docs nor context before.
C3_Witness ==
    \E r \in DOMAIN pc :
        /\ executed[r] = SubSeq(Order, 1, 2)
        /\ ErrorNames(r, "embed_query")
        /\ "filters" \notin DOMAIN st[r]
        /\ st[r].retrieved_docs = List(<<>>)

(* C4: once a stage has set error, no later stage changes it.               *)
C4_ErrorNeverOverwritten ==
    [][\A r \in DOMAIN pc :
          (executed[r] # <<>> /\ ErrorSet(r)) => ErrorOf(r) = Get(st'[r], "error", None)]_vars

\* The retrieve stage set the error and the generate stage ran after it.
C4_Witness ==
    \E r \in DOMAIN pc :
        pc[r] = "END" /\ RetrieveFailed(r) /\ ErrorNames(r, "retrieve_documents")

(* C5: no collaborator is invoked after a stage has failed: a failed call   *)
(* is the last call of its run, and a run whose embed stage found no query  *)
(* makes no call at all.                                                    *)
C5_NoCallAfterFailure ==
    \A r \in DOMAIN pc :
        /\ \A i \in 1..Len(calls[r]) : FailedCall(calls[r][i]) => i = Len(calls[r])
        /\ EmbedFailed(r) => CallsTo(r, "search_documents") = <<>>
                             /\ CallsTo(r, "generate_response") = <<>>
        /\ RetrieveFailed(r) => CallsTo(r, "generate_response") = <<>>

\* A run ended after its retriever failed: embed and search were called, the
\* LLM was not.
C5_Witness ==
    \E r \in DOMAIN pc :
        /\ pc[r] = "END"
        /\ RetrieveFailed(r)
        /\ Len(calls[r]) = 2

(* C6: when the embed or the retrieve stage failed, the final state has     *)
(* retrieved_docs = [], context = "", error naming that stage, and the      *)
(* response "Desculpe, ocorreu um erro no passo '<node>': <message>" built  *)
(* from that error's node and message.                                      *)
C6_FailureEndsInApology ==
    \A r \in DOMAIN pc :
        (pc[r] = "END" /\ (EmbedFailed(r) \/ RetrieveFailed(r))) =>
            /\ st[r].retrieved_docs = List(<<>>)
            /\ st[r].context = Str(<<>>)
            /\ ErrorNames(r, IF EmbedFailed(r) THEN "embed_query" ELSE "retrieve_documents")
            /\ st[r].response =
                  Str(<<"D", "e", "s", "c", "u", "l", "p", "e", ",", " ", "o", "c", "o", "r",
                      "r", "e", "u", " ", "u", "m", " ", "e", "r", "r", "o", " ", "n", "o",
                      " ", "p", "a", "s", "s", "o", " ", "'">> \o ErrorOf(r).obj.node
                      \o <<"'", ":", " ">> \o ErrorOf(r).obj.message)

\* The dense embedding backend rejected the credentials and the run ended
\* with the apology naming embed_query.
C6_Witness ==
    \E r \in DOMAIN pc :
        /\ pc[r] = "END"
        /\ ErrorNames(r, "embed_query")
        /\ st[r].response =
              Str(<<"D", "e", "s", "c", "u", "l", "p", "e", ",", " ", "o", "c", "o", "r", "r",
                  "e", "u", " ", "u", "m", " ", "e", "r", "r", "o", " ", "n", "o", " ", "p",
                  "a", "s", "s", "o", " ", "'">> \o <<"e", "m", "b", "e", "d", "_",
                  "q", "u", "e", "r", "y">> \o <<"'",
                  ":", " ">>
                    \o <<"E", "r", "r", "o", " ", "a", "o", " ", "g", "e", "r", "a", "r", " ",
                        "e", "m", "b", "e", "d", "d", "i", "n", "g", "s", ":", " ">>
                    \o <<"E", "r", "r", "o", " ", "a", "o", " ", "g", "e", "r", "a", "r", " ",
                        "e", "m", "b", "e", "d", "d", "i", "n", "g", " ", "d", "e", "n", "s",
                        "o", " ", "c", "o", "m", " ", "A", "m", "a", "z", "o", "n", " ", "T",
                        "i", "t", "a", "n", ":", " ">> \o M_credentials)

(* C7 as stated: in every finished run the response is a non-empty str.     *)
C7_ResponseAlwaysNonEmpty ==
    \A r \in DOMAIN pc :
        pc[r] = "END" => (st[r].response.t = "str" /\ Len(st[r].response.v) > 0)

(* C7 amended: in every finished run whose generate stage did not fail the  *)
(* response is a non-empty str; when the generate stage failed the response *)
(* is None.                                                                 *)
C7_ResponseNonEmptyUnlessGenerateFails ==
    \A r \in DOMAIN pc :
        pc[r] = "END" =>
            IF GenerateFailed(r)
            THEN st[r].response = None
            ELSE st[r].response.t = "str" /\ Len(st[r].response.v) > 0

\* A run ended with response None: the generation backend gave a ClientError.
C7_Witness ==
    \E r \in DOMAIN pc :
        /\ pc[r] = "END"
        /\ st[r].response = None
        /\ CallsTo(r, "generate_response") # <<>>
        /\ CallsTo(r, "generate_response")[1].collaborator
              = Service([kind |-> "ClientError", response |-> Throttled])

(* C8: when the generate stage, entered without error, gets None or "" from *)
(* the LLM, it sets error to a record naming generate_response and the      *)
(* response is None, not a generated answer.                                *)
C8_NoTextIsGenerateError ==
    \A r \in DOMAIN pc :
        \A i \in 1..Len(calls[r]) :
            (/\ calls[r][i].target = "generate_response"
             /\ calls[r][i].result.kind = "return"
             /\ calls[r][i].result.value \in {None, Str(<<>>)}) =>
                /\ ErrorNames(r, "generate_response")
                /\ st[r].response = None

\* The LLM returned the empty string.
C8_Witness ==
    \E r \in DOMAIN pc :
        /\ pc[r] = "END"
        /\ CallsTo(r, "generate_response") # <<>>
        /\ CallsTo(r, "generate_response")[1].result.kind = "return"
        /\ CallsTo(r, "generate_response")[1].result.value = Str(<<>>)

(* C9: two finished runs whose errors have the same node and message have   *)
(* the same response, whatever their details are.                          *)
C9_ResponseIgnoresDetails ==
    \A r1, r2 \in DOMAIN pc :
        (/\ pc[r1] = "END" /\ pc[r2] = "END"
         /\ ErrorSet(r1) /\ ErrorSet(r2)
         /\ ErrorOf(r1).obj.node = ErrorOf(r2).obj.node
         /\ ErrorOf(r1).obj.message = ErrorOf(r2).obj.message) =>
            st[r1].response = st[r2].response

\* Two finished runs failed in the embed stage with the same message and
\* different tracebacks.
C9_Witness ==
    /\ \A r \in Runs : r \in DOMAIN pc /\ pc[r] = "END" /\ ErrorNames(r, "embed_query")
    /\ ErrorOf("r1").obj.message = ErrorOf("r2").obj.message
    /\ \A r \in Runs : "details" \in DOMAIN ErrorOf(r).obj
    /\ ErrorOf("r1").obj.details # ErrorOf("r2").obj.details

(* C10: when the embedder returned a bundle, the retriever at least one     *)
(* passage with text and the LLM a non-empty text T, the final state has no *)
(* error, a non-empty context, and the response T followed by the           *)
(* disclaimer if should_include_disclaimer(T), and exactly T otherwise.     *)
C10_SuccessfulRun ==
    \A r \in DOMAIN pc :
        (/\ pc[r] = "END"
         /\ Len(calls[r]) = 3
         /\ \A i \in 1..3 : calls[r][i].result.kind = "return" /\ Truthy(calls[r][i].result.value)
         /\ calls[r][2].result.value.t = "list"
         /\ \E d \in 1..Len(calls[r][2].result.value.v) :
               calls[r][2].result.value.v[d].page_content # <<>>) =>
            LET T == calls[r][3].result.value.v
            IN  /\ ErrorOf(r) = None
                /\ Len(st[r].context.v) > 0
                /\ st[r].response = Str(IF should_include_disclaimer(T)
                                        THEN T \o get_disclaimer ELSE T)
                /\ (T = T_plain \/ T = T_one) => st[r].response = Str(T)

\* A run ended with the two-keyword answer followed by the disclaimer.
C10_Witness ==
    \E r \in DOMAIN pc :
        /\ pc[r] = "END"
        /\ ErrorOf(r) = None
        /\ st[r].context = Str(P_A \o ContextSeparator \o P_B)
        /\ st[r].response = Str(T_two \o get_disclaimer)

----------------------------------------------------------------------------
(* Vocabulary of the properties of direct calls *)

\* The calls of `target` made so far, by any caller or run.
CallsOf(target) ==
    {x \in UNION {{calls[c][i] : i \in 1..Len(calls[c])} : c \in DOMAIN calls} :
        x.target = target}

\* Keyword number k of the critical vocabulary occurs in the lower-cased text.
KeywordOccurs(k, text) == Contains(Lower(text), critical_keywords[k])

(* C11: should_include_disclaimer(text) is true exactly when two different  *)
(* keywords of the critical vocabulary occur in the lower-cased text; with  *)
(* one keyword (however often it occurs) or none it is false.               *)
C11_DisclaimerIffTwoKeywords ==
    \A x \in CallsOf("should_include_disclaimer") :
        /\ x.result.kind = "return"
        /\ x.result.value.b =
              (\E k1, k2 \in 1..Len(critical_keywords) :
                  k1 # k2 /\ KeywordOccurs(k1, x.arg.v) /\ KeywordOccurs(k2, x.arg.v))

\* The text with the one keyword "dose", twice, was judged and got no disclaimer.
C11_Witness ==
    \E x \in CallsOf("should_include_disclaimer") :
        /\ x.arg.v = R_twice
        /\ \E k \in 1..Len(critical_keywords) : KeywordOccurs(k, x.arg.v)
        /\ x.result.value.b = FALSE

----------------------------------------------------------------------------
(* Vocabulary of the properties of the retrieve stage *)

\* The retrieve stage of run r called the retriever and got a list back.
RetrieveSucceeded(r) ==
    /\ CallsTo(r, "search_documents") # <<>>
    /\ ~FailedCall(CallsTo(r, "search_documents")[1])

\* The passages the retriever gave run r.
PassagesOf(r) == CallsTo(r, "search_documents")[1].result.value.v

\* The non-empty texts of docs, in order, with the separator between each two.
RECURSIVE Concatenation(_)
Concatenation(docs) ==
    IF docs = <<>> THEN <<>>
    ELSE LET first == Head(docs).page_content
             rest == Concatenation(Tail(docs))
         IN  IF first = <<>> THEN rest
             ELSE IF rest = <<>> THEN first
             ELSE first \o <<"\n", "\n", "-", "-", "-", "\n", "\n">> \o rest

(* C12: after a successful retrieve stage, retrieved_docs are the passages  *)
(* the retriever gave and context is the concatenation, in retrieval order, *)
(* of the non-empty page_contents with the separator only between two of    *)
(* them; with no passage or only empty ones context is "", and in both      *)
(* cases the retrieve stage leaves error unset.                             *)
C12_ContextJoinsNonEmptyPassages ==
    \A r \in DOMAIN pc :
        RetrieveSucceeded(r) =>
            /\ st[r].retrieved_docs = List(PassagesOf(r))
            /\ st[r].context = Str(Concatenation(PassagesOf(r)))
            /\ (\A i \in 1..Len(PassagesOf(r)) : PassagesOf(r)[i].page_content = <<>>)
                  => st[r].context = Str(<<>>)
            /\ executed[r] = SubSeq(Order, 1, 2) => ErrorOf(r) = None

\* The retriever gave A, an empty passage and B: context is A, separator, B.
C12_Witness ==
    \E r \in DOMAIN pc :
        /\ RetrieveSucceeded(r)
        /\ Len(PassagesOf(r)) = 3
        /\ PassagesOf(r)[1].page_content = P_A
        /\ PassagesOf(r)[2].page_content = <<>>
        /\ PassagesOf(r)[3].page_content = P_B
        /\ st[r].context = Str(P_A \o ContextSeparator \o P_B)

\* The prompts run r sent to the LLM.
PromptsOf(r) == [i \in 1..Len(CallsTo(r, "generate_response")) |->
                    CallsTo(r, "generate_response")[i].arg.v]

(* C13: when the retriever succeeds with zero passages (the embed stage has *)
(* then succeeded too), context is "", the retrieve stage leaves error      *)
(* unset, and the generate stage calls the LLM exactly once; for a query    *)
(* that is no greeting the prompt of that call is the technical prompt with *)
(* the fixed "no information found" placeholder where the context goes.     *)
C13_ZeroPassagesStillGenerates ==
    \A r \in DOMAIN pc :
        (RetrieveSucceeded(r) /\ PassagesOf(r) = <<>>) =>
            /\ Truthy(st[r].query_embedding)
            /\ st[r].context = Str(<<>>)
            /\ executed[r] = SubSeq(Order, 1, 2) => ErrorOf(r) = None
            /\ pc[r] = "END" =>
                  /\ Len(PromptsOf(r)) = 1
                  /\ ~is_greeting(st[r].query.v) =>
                        /\ StartsAt(PromptsOf(r)[1], Len(TechnicalHead) + 1,
                                    NoContextPlaceholder \o TechnicalMiddle)
                        /\ PromptsOf(r)[1] = TechnicalHead \o NoContextPlaceholder
                                               \o TechnicalMiddle \o st[r].query.v \o TechnicalTail

\* A run asking about "milho" got zero passages and has called the LLM.
C13_Witness ==
    \E r \in DOMAIN pc :
        /\ pc[r] = "END"
        /\ RetrieveSucceeded(r) /\ PassagesOf(r) = <<>>
        /\ st[r].query = Str(Q_milho)
        /\ Len(PromptsOf(r)) = 1
        /\ StartsAt(PromptsOf(r)[1], Len(TechnicalHead) + 1, NoContextPlaceholder)

----------------------------------------------------------------------------
\* The query, lower-cased and stripped, is an entry of the greeting vocabulary.
IsVocabularyGreeting(query) ==
    \E g \in 1..Len(saudacoes) : Strip(Lower(query)) = saudacoes[g]

(* C14: for a query that is a greeting of the vocabulary, such as "oi",      *)
(* format_rag_prompt returns the greeting prompt around the query and not   *)
(* the technical prompt; neither the context passed nor the placeholder is  *)
(* put into it, and every other context gives the same prompt.              *)
C14_GreetingPromptIgnoresContext ==
    \A x \in CallsOf("format_rag_prompt") :
        IsVocabularyGreeting(x.arg.query.v) =>
            /\ x.result.kind = "return"
            /\ x.result.value = Str(GreetingHead \o x.arg.query.v \o GreetingTail)
            /\ ~StartsAt(x.result.value.v, 1, TechnicalHead)
            /\ ~Contains(x.result.value.v, NoContextPlaceholder)
            /\ \A context \in Contexts :
                  format_rag_prompt(x.arg.query.v, context) = x.result.value.v

\* The prompt for "oi" was formatted with a context of two passages.
C14_Witness ==
    \E x \in CallsOf("format_rag_prompt") :
        /\ x.arg.query = Str(Q_oi_lower)
        /\ x.arg.context = Str(P_A \o ContextSeparator \o P_B)
        /\ StartsAt(x.result.value.v, 1, GreetingHead)

----------------------------------------------------------------------------
\* The calls of `target` on the repository's service (not on a test double).
ServiceCallsOf(target) == {x \in CallsOf(target) : x.collaborator.impl = "service"}

\* x is a list whose items all are numbers of the kind ("int" or "float").
IsVector(x, kind) ==
    /\ ~IsDict(x)
    /\ x.t = "list"
    /\ \A i \in 1..Len(x.v) : ~IsDict(x.v[i]) /\ x.v[i].t = kind

\* x is a list of the numbers of the list y, in the same order.
SameNumbers(x, y) ==
    /\ ~IsDict(y)
    /\ y.t = "list"
    /\ Len(x.v) = Len(y.v)
    /\ \A i \in 1..Len(x.v) :
          ~IsDict(y.v[i]) /\ y.v[i].t \in {"int", "float"} /\ x.v[i].n = y.v[i].n

\* b is a bundle that holds a dense vector and a sparse vector.
HoldsBothVectors(b) ==
    /\ ~IsDict(b)
    /\ b.t = "QueryEmbeddings"
    /\ IsVector(b.dense, "float")
    /\ ~IsDict(b.sparse_bm25)
    /\ b.sparse_bm25.t = "SparseVector"
    /\ IsVector(b.sparse_bm25.indices, "int")
    /\ IsVector(b.sparse_bm25.values, "float")

\* The dense call of x failed: the backend raised or answered without an
\* embedding.
DenseFailed(x) ==
    \/ ~x.collaborator.backend.dense.ok
    \/ ~IsDict(x.collaborator.backend.dense.body)
    \/ "embedding" \notin DOMAIN x.collaborator.backend.dense.body

\* The sparse call of x failed.
SparseFailed(x) == ~x.collaborator.backend.sparse.ok

(* C15: QueryEmbedder.embed_query returns a bundle only when both the dense *)
(* and the sparse embedding succeeded, and the bundle then holds both       *)
(* vectors, a list of floats as dense and a SparseVector of a list of ints  *)
(* and a list of floats as sparse_bm25, with the numbers the two backends   *)
(* gave; when either of the two fails it raises and returns nothing.        *)
C15_NoPartialBundle ==
    \A x \in ServiceCallsOf("embed_query") :
        /\ (DenseFailed(x) \/ SparseFailed(x)) => x.result.kind = "raise"
        /\ x.result.kind = "return" =>
              /\ HoldsBothVectors(x.result.value)
              /\ SameNumbers(x.result.value.dense, x.collaborator.backend.dense.body.embedding)
              /\ IsDict(x.collaborator.backend.sparse.vector)
              /\ SameNumbers(x.result.value.sparse_bm25.indices,
                             x.collaborator.backend.sparse.vector.indices)
              /\ SameNumbers(x.result.value.sparse_bm25.values,
                             x.collaborator.backend.sparse.vector.values)

\* The dense embedding was computed, the sparse one failed, and embed_query
\* raised.
C15_Witness ==
    \E x \in ServiceCallsOf("embed_query") :
        /\ ~DenseFailed(x)
        /\ SparseFailed(x)
        /\ x.result.kind = "raise"
        /\ x.result.backend = <<"dense", "sparse">>

----------------------------------------------------------------------------
\* The query of run r is empty or only whitespace.
BlankQuery(r) == st[r].query.t = "str" /\ Strip(st[r].query.v) = <<>>

\* Run r handed its query to no embedder but the repository's QueryEmbedder.
EmbedsWithService(r) ==
    \A i \in 1..Len(calls[r]) :
        calls[r][i].target = "embed_query" => calls[r][i].collaborator.impl = "service"

(* C16: QueryEmbedder.embed_query raises the invalid-input ValueError for   *)
(* an empty or whitespace-only query without reaching the dense or the      *)
(* sparse backend, whatever the backends would do; and a run with such a    *)
(* query whose embedder is the QueryEmbedder has, from the embed stage on,  *)
(* the error of the embed stage, no embedding bundle, and no call that      *)
(* reached a backend.                                                       *)
C16_BlankQueryFailsAtEmbed ==
    /\ \A q \in {Q_empty, Q_blank}, query_embedder \in ServiceEmbedders :
          embed_query(query_embedder, Str(q))
              = Raises(Exc("ValueError", <<"Q", "u", "e", "r", "y", " ", "n", "ã", "o", " ",
                  "p", "o", "d", "e", " ", "s", "e", "r", " ", "v", "a", "z", "i", "a">>), <<>>)
    /\ \A r \in DOMAIN pc :
          (BlankQuery(r) /\ executed[r] # <<>> /\ EmbedsWithService(r)) =>
              /\ ErrorNames(r, "embed_query")
              /\ ~Truthy(Get(st[r], "query_embedding", None))
              /\ \A i \in 1..Len(calls[r]) :
                    /\ calls[r][i].target = "embed_query"
                    /\ calls[r][i].result.kind = "raise"
                    /\ calls[r][i].result.exc.type = "ValueError"
                    /\ calls[r][i].result.backend = <<>>

\* A run whose query is one blank ended; its QueryEmbedder had raised the
\* ValueError before reaching a backend.
C16_Witness ==
    \E r \in DOMAIN pc :
        /\ pc[r] = "END"
        /\ st[r].query = Str(Q_blank)
        /\ Len(calls[r]) = 1
        /\ calls[r][1].collaborator.impl = "service"
        /\ calls[r][1].collaborator.backend.dense.ok
        /\ calls[r][1].result.kind = "raise"
        /\ ErrorNames(r, "embed_query")

----------------------------------------------------------------------------
\* What the store did for the search x, when x was handed a bundle that
\* could be sent to it: it raised UnexpectedResponse, it failed in another
\* way (any other exception, or a point without payload, which makes the
\* conversion fail), or it answered with points.
\* The embeddings the search x was handed, by a direct call or by the node.
EmbeddingsOf(x) == IF IsDict(x.arg) THEN x.arg.embeddings ELSE x.arg

StoreReached(x) == prefetch_readable(EmbeddingsOf(x))

StoreUnavailable(x) == StoreReached(x) /\ x.collaborator.backend.kind = "UnexpectedResponse"

StoreAnswered(x) ==
    /\ StoreReached(x)
    /\ x.collaborator.backend.kind = "points"
    /\ \A i \in 1..Len(x.collaborator.backend.points) :
          makes_document(x.collaborator.backend.points[i])

(* C17: search_documents raises the 503 "service unavailable" HTTPException *)
(* exactly for an UnexpectedResponse of the store and the 500 "internal     *)
(* error" HTTPException for every other failure; it returns a list only     *)
(* when the store answered, never after a failure.                          *)
C17_RetrievalFailuresDistinguished ==
    \A x \in ServiceCallsOf("search_documents") :
        /\ StoreUnavailable(x) =>
              /\ x.result.kind = "raise"
              /\ x.result.exc.type = "HTTPException"
              /\ x.result.exc.status_code = 503
        /\ (~StoreUnavailable(x) /\ ~StoreAnswered(x)) =>
              /\ x.result.kind = "raise"
              /\ x.result.exc.type = "HTTPException"
              /\ x.result.exc.status_code = 500
        /\ x.result.kind = "return" => StoreAnswered(x)
        /\ x.result.kind = "raise" => ~StoreAnswered(x)
        /\ ~StoreReached(x) => x.result.backend = <<>>

\* A search met an UnexpectedResponse and raised the 503.
C17_Witness ==
    \E x \in ServiceCallsOf("search_documents") :
        /\ StoreUnavailable(x)
        /\ x.result.kind = "raise"
        /\ x.result.exc.status_code = 503

----------------------------------------------------------------------------
\* The records the store returned for the search x.
RecordsOf(x) == x.collaborator.backend.points

(* C18: a search that succeeds returns one passage per record of the store, *)
(* in the store's order; the passage has the record's text and metadata,    *)
(* and an empty page_content when the record's payload has no text.         *)
C18_OnePassagePerRecord ==
    \A x \in ServiceCallsOf("search_documents") :
        x.result.kind = "return" =>
            /\ x.result.value.t = "list"
            /\ Len(x.result.value.v) = Len(RecordsOf(x))
            /\ \A i \in 1..Len(RecordsOf(x)) :
                  /\ x.result.value.v[i].t = "Document"
                  /\ x.result.value.v[i].page_content =
                        IF "text" \in DOMAIN RecordsOf(x)[i] THEN RecordsOf(x)[i].text.v
                        ELSE <<>>
                  /\ "metadata" \in DOMAIN RecordsOf(x)[i] =>
                        x.result.value.v[i].metadata = RecordsOf(x)[i].metadata

\* The store returned B, a record without text and A; three passages came
\* back, in that order, the second one empty.
C18_Witness ==
    \E x \in ServiceCallsOf("search_documents") :
        /\ x.result.kind = "return"
        /\ Len(RecordsOf(x)) = 3
        /\ "text" \notin DOMAIN RecordsOf(x)[2]
        /\ x.result.value.v[1].page_content = P_B
        /\ x.result.value.v[2].page_content = <<>>
        /\ x.result.value.v[3].page_content = P_A

(* C19: every call search_documents(bundle, limit) that returns gives at    *)
(* most `limit` passages.                                                   *)
C19_AtMostLimitPassages ==
    \A x \in ServiceCallsOf("search_documents") :
        x.result.kind = "return" => Len(x.result.value.v) <= x.arg.limit

----------------------------------------------------------------------------
\* The prompt is None, no string, empty or only whitespace.
InvalidPrompt(prompt) ==
    \/ prompt = None
    \/ prompt.t # "str"
    \/ \A i \in 1..Len(prompt.v) : IsSpace(prompt.v[i])

\* The backend of the LLM call x failed: a client error, a body that is no
\* JSON, or any other exception.
BackendFailed(x) == x.collaborator.backend.kind # "body"

(* C20: LLMService.generate_response raises exactly for an invalid prompt   *)
(* (None, not a string, empty or only whitespace), with a ValueError and    *)
(* before it reaches the backend; for a valid prompt it returns, and what   *)
(* it returns after any backend error is None.                              *)
C20_RaisesOnlyForInvalidPrompt ==
    \A x \in ServiceCallsOf("generate_response") :
        /\ (x.result.kind = "raise") = InvalidPrompt(x.arg)
        /\ x.result.kind = "raise" =>
              /\ x.result.exc.type = "ValueError"
              /\ x.result.backend = <<>>
        /\ (~InvalidPrompt(x.arg) /\ BackendFailed(x)) => x.result.value = None

----------------------------------------------------------------------------
\* The four shapes of a response body, in the order of their priority, and
\* the text each holds (None when the shape matches but holds no text).
ShapeMatches(body, n) ==
    CASE n = 1 -> "generation" \in DOMAIN body
      [] n = 2 -> "completions" \in DOMAIN body /\ Truthy(body.completions)
      [] n = 3 -> "results" \in DOMAIN body /\ Truthy(body.results)
      [] n = 4 -> "output" \in DOMAIN body

\* The value at `key` of x when x is a dict that has the key, else None.
Field(x, key) == IF IsDict(x) /\ key \in DOMAIN x THEN x[key] ELSE None

\* The first element of x when x is a list that has one, else None.
FirstOf(x) == IF ~IsDict(x) /\ x.t = "list" /\ x.v # <<>> THEN x.v[1] ELSE None

ShapeText(body, n) ==
    CASE n = 1 -> body.generation
      [] n = 2 -> Field(Field(FirstOf(body.completions), "data"), "text")
      [] n = 3 -> Field(FirstOf(body.results), "outputText")
      [] n = 4 -> Field(body.output, "text")

(* C21: _extract_response_text returns the text of the first of the shapes  *)
(* generation, completions[0].data.text, results[0].outputText, output.text *)
(* that the response body matches, whatever later shapes it also matches,   *)
(* and returns None, without raising, when the body matches none of them.   *)
C21_ExtractionFollowsPriority ==
    \A x \in CallsOf("_extract_response_text") :
        /\ x.result.kind = "return"
        /\ \A n \in 1..4 :
              (ShapeMatches(x.arg, n) /\ \A m \in 1..(n - 1) : ~ShapeMatches(x.arg, m))
                  => x.result.value = ShapeText(x.arg, n)
        /\ (\A n \in 1..4 : ~ShapeMatches(x.arg, n)) => x.result.value = None

----------------------------------------------------------------------------
(* The run of r's request alone: the three nodes applied one after the      *)
(* other to the initial state of r's query, with the collaborators that r   *)
(* called and the traceback that r's error holds.  A collaborator r did not *)
(* call is not called in the run alone either, so any one stands for it.    *)

CollaboratorOf(r, target, pool) ==
    IF CallsTo(r, target) # <<>> THEN CallsTo(r, target)[1].collaborator
    ELSE CHOOSE x \in pool : TRUE

TracebackOf(r) ==
    IF ErrorSet(r) /\ "details" \in DOMAIN ErrorOf(r).obj THEN ErrorOf(r).obj.details
    ELSE CHOOSE tb \in Tracebacks : TRUE

Alone(r) ==
    LET s0 == InitialState(st[r].query.v,
                           IF "filters" \in DOMAIN st[r] THEN "full" ELSE "minimal")
        a == embed_query_node(s0, CollaboratorOf(r, "embed_query", Embedders), TracebackOf(r))
        s1 == Merge(s0, a.out)
        b == retrieve_documents_node(s1, CollaboratorOf(r, "search_documents", Retrievers),
                                     TracebackOf(r))
        s2 == Merge(s1, b.out)
        c == generate_response_node(s2, CollaboratorOf(r, "generate_response", LLMs),
                                    TracebackOf(r))
    IN  [final |-> Merge(s2, c.out), calls |-> a.calls \o b.calls \o c.calls]

(* C22: when the runs of two requests interleave stage by stage, the final  *)
(* state of each run (query_embedding, retrieved_docs, context, response,   *)
(* error and the rest) and the collaborator calls it made are those of the  *)
(* same request run alone with the same collaborator outcomes.              *)
C22_RunsDoNotInterfere ==
    \A r \in DOMAIN pc :
        pc[r] = "END" =>
            /\ st[r] = Alone(r).final
            /\ calls[r] = Alone(r).calls

\* Two runs of different queries, started together, have both ended: one
\* failed at the embed stage, the other produced an answer.
C22_Witness ==
    /\ Cardinality(DOMAIN pc) = 2
    /\ \A r \in DOMAIN pc : pc[r] = "END"
    /\ \E r1, r2 \in DOMAIN pc :
          /\ ErrorNames(r1, "embed_query")
          /\ ~ErrorSet(r2) /\ Truthy(st[r2].response)
          /\ st[r1].query # st[r2].query

----------------------------------------------------------------------------
\* The embedding bundle of run r is set.
BundleSet(r) == Truthy(Get(st[r], "query_embedding", None))

\* The message of the retrieve stage for a state without error and bundle.
InconsistencyMessage == <<"O", "b", "j", "e", "t", "o", " ", "d", "e", " ", "e", "m", "b", "e",
    "d", "d", "i", "n", "g", "s", " ", "n", "ã", "o", " ", "e", "n", "c", "o", "n", "t", "r",
    "a", "d", "o", " ", "n", "o", " ", "e", "s", "t", "a", "d", "o", ".">>

(* C23: right after the embed stage of a run started without error, either  *)
(* the bundle is set and error is unset, or error names embed_query and the *)
(* bundle is unset, and never both or neither; an embedder that returned an *)
(* empty result gives the second case.  Hence no run ever holds the error   *)
(* of the retrieve stage for a missing bundle: when the retrieve stage      *)
(* fails, it has called the retriever.                                      *)
C23_EmbedSucceedsOrFails ==
    \A r \in DOMAIN pc :
        /\ executed[r] = SubSeq(Order, 1, 1) =>
              /\ (BundleSet(r) /\ ~ErrorSet(r)) \/ (ErrorNames(r, "embed_query") /\ ~BundleSet(r))
              /\ ~(BundleSet(r) /\ ErrorSet(r))
              /\ (CallsTo(r, "embed_query") # <<>>
                     /\ CallsTo(r, "embed_query")[1].result.kind = "return"
                     /\ ~Truthy(CallsTo(r, "embed_query")[1].result.value))
                    => ErrorNames(r, "embed_query")
        /\ ErrorSet(r) => Get(ErrorOf(r).obj, "message", <<>>) # InconsistencyMessage
        /\ ErrorNames(r, "retrieve_documents") => CallsTo(r, "search_documents") # <<>>

\* The embedder returned nothing: the embed stage has just ended with its
\* error and without a bundle.
C23_Witness ==
    \E r \in DOMAIN pc :
        /\ executed[r] = SubSeq(Order, 1, 1)
        /\ CallsTo(r, "embed_query") # <<>>
        /\ CallsTo(r, "embed_query")[1].result.kind = "return"
        /\ CallsTo(r, "embed_query")[1].result.value = None
        /\ ErrorNames(r, "embed_query")
        /\ ~BundleSet(r)

----------------------------------------------------------------------------
\* The state has no error and no embedding bundle.
NoErrorNoBundle(state) ==
    /\ ~Truthy(Get(state, "error", None))
    /\ ~Truthy(Get(state, "query_embedding", None))

(* C24: retrieve_documents_node called on a state with neither an error nor *)
(* an embedding bundle does not call the retriever and returns              *)
(* retrieved_docs [], context "" and an error whose node is                 *)
(* retrieve_documents.                                                      *)
C24_MissingBundleIsRetrieveError ==
    \A c \in DOMAIN calls : \A i \in 1..Len(calls[c]) :
        (calls[c][i].target = "retrieve_documents_node" /\ NoErrorNoBundle(calls[c][i].arg)) =>
            /\ calls[c][i].result.kind = "return"
            /\ DOMAIN calls[c][i].result.value = {"retrieved_docs", "context", "error"}
            /\ calls[c][i].result.value.retrieved_docs = List(<<>>)
            /\ calls[c][i].result.value.context = Str(<<>>)
            /\ Truthy(calls[c][i].result.value.error)
            /\ calls[c][i].result.value.error.obj.node = <<"r", "e", "t", "r", "i", "e", "v",
                "e", "_", "d", "o", "c", "u", "m", "e", "n", "t", "s">>
            /\ \A j \in 1..Len(calls[c]) : calls[c][j].target # "search_documents"

\* The node was called on a state that holds the query alone, with a
\* retriever that would have returned passages.
C24_Witness ==
    \E x \in CallsOf("retrieve_documents_node") :
        /\ DOMAIN x.arg = {"query"}
        /\ x.collaborator.impl = "service"
        /\ x.collaborator.backend.kind = "points"
        /\ x.collaborator.backend.points # <<>>
        /\ x.result.value.error.obj.node = <<"r", "e", "t", "r", "i", "e", "v", "e", "_", "d",
            "o", "c", "u", "m", "e", "n", "t", "s">>

----------------------------------------------------------------------------
IsLetter(c) == \E k \in 1..Len(LowerChars) : c = LowerChars[k] \/ c = UpperChars[k]

\* An entry of the greeting vocabulary stands in the lower-cased query as
\* words of its own: no letter touches it on either side.
MatchesGreeting(query) ==
    LET s == Strip(Lower(query))
    IN  \E g \in 1..Len(saudacoes) : \E i \in 0..(Len(s) - Len(saudacoes[g])) :
            /\ SubSeq(s, i + 1, i + Len(saudacoes[g])) = saudacoes[g]
            /\ i > 0 => ~IsLetter(s[i])
            /\ i + Len(saudacoes[g]) < Len(s) => ~IsLetter(s[i + Len(saudacoes[g]) + 1])

\* The context as the technical prompt shows it.
ShownContext(context) ==
    IF context = None THEN NoContextPlaceholder
    ELSE IF \A i \in 1..Len(context.v) : IsSpace(context.v[i]) THEN NoContextPlaceholder
    ELSE context.v

(* C25: format_rag_prompt returns the greeting prompt exactly when the      *)
(* query has at most 3 whitespace-separated tokens and matches, without     *)
(* regard to case, an entry of the greeting vocabulary; for every other     *)
(* query it returns the technical prompt around the context as passed, or   *)
(* around the placeholder when the context is blank.                        *)
C25_GreetingIffShortGreeting ==
    \A x \in CallsOf("format_rag_prompt") :
        LET query == x.arg.query.v
        IN  /\ x.result.kind = "return"
            /\ x.result.value =
                  Str(IF Len(Split(query)) <= 3 /\ MatchesGreeting(query)
                      THEN GreetingHead \o query \o GreetingTail
                      ELSE TechnicalHead \o ShownContext(x.arg.context) \o TechnicalMiddle
                             \o query \o TechnicalTail)

----------------------------------------------------------------------------
\* Every collaborator request r called is one of the repository's services,
\* as get_services builds the graph.
OnlyServices(r) ==
    \A i \in 1..Len(calls[r]) :
        calls[r][i].collaborator # None => calls[r][i].collaborator.impl = "service"

(* C26: when the run of a /query request ends with error set, process_query *)
(* answers with a protocol-level failure (an HTTPException with a status of *)
(* 500 or more) and not with a QueryResponse.                               *)
C26_ErrorGivesFailureStatus ==
    \A r \in DOMAIN pc : \A i \in 1..Len(calls[r]) :
        (calls[r][i].target = "process_query" /\ ErrorSet(r) /\ OnlyServices(r)) =>
            /\ calls[r][i].result.kind = "raise"
            /\ calls[r][i].result.exc.status_code >= 500

----------------------------------------------------------------------------
ResponseOf(r) == Get(st[r], "response", None)

\* The response of run r is the non-empty text its one call of the LLM
\* service returned, as it is or followed by the disclaimer.
IsGeneratedAnswer(r) ==
    LET made == CallsTo(r, "generate_response")
    IN  /\ Len(made) = 1
        /\ made[1].result.kind = "return"
        /\ made[1].result.value.t = "str"
        /\ made[1].result.value.v # <<>>
        /\ ResponseOf(r).t = "str"
        /\ ResponseOf(r).v \in {made[1].result.value.v,
                                made[1].result.value.v \o get_disclaimer}

\* The response of run r is an apology for a failed stage.
IsApology(r) ==
    /\ ResponseOf(r).t = "str"
    /\ ResponseOf(r).v # <<>>
    /\ StartsAt(ResponseOf(r).v, 1, <<"D", "e", "s", "c", "u", "l", "p", "e", ",", " ", "o",
        "c", "o", "r", "r", "e", "u", " ", "u", "m", " ", "e", "r", "r", "o", " ", "n", "o",
        " ", "p", "a", "s", "s", "o", " ", "'">>)

(* C27: when a run has ended, error is unset exactly when response is the   *)
(* non-empty generated answer, with or without the disclaimer; error names  *)
(* embed_query or retrieve_documents exactly when response is the apology   *)
(* (for that stage and message); and response is None exactly when error    *)
(* names generate_response.                                                 *)
C27_ResponseMatchesError ==
    \A r \in DOMAIN pc : pc[r] = "END" =>
        /\ ~ErrorSet(r) <=> IsGeneratedAnswer(r)
        /\ (ErrorNames(r, "embed_query") \/ ErrorNames(r, "retrieve_documents")) <=> IsApology(r)
        /\ IsApology(r) =>
              ResponseOf(r).v = <<"D", "e", "s", "c", "u", "l", "p", "e", ",", " ", "o", "c",
                  "o", "r", "r", "e", "u", " ", "u", "m", " ", "e", "r", "r", "o", " ", "n",
                  "o", " ", "p", "a", "s", "s", "o", " ", "'">> \o ErrorOf(r).obj.node
                                   \o <<"'", ":", " ">> \o ErrorOf(r).obj.message
        /\ ResponseOf(r) = None <=> ErrorNames(r, "generate_response")
        /\ ErrorSet(r) => \E i \in 1..Len(Order) : ErrorNames(r, Order[i])

\* A run that was handed the query alone has ended with an error of the
\* generate stage after the LLM service was called, and response is None.
C27_Witness ==
    \E r \in DOMAIN pc :
        /\ pc[r] = "END"
        /\ ErrorNames(r, "generate_response")
        /\ "filters" \notin DOMAIN st[r]
        /\ "response" \in DOMAIN st[r] /\ st[r].response = None
        /\ Len(CallsTo(r, "generate_response")) = 1

----------------------------------------------------------------------------
(* C28: when generate_response runs on a state whose error is set, it calls *)
(* nothing and writes as response exactly the apology for that error; the   *)
(* disclaimer is not appended, even when the apology would pass             *)
(* should_include_disclaimer.                                               *)
C28_NoDisclaimerOnErrorPath ==
    [][\A r \in DOMAIN pc :
          (pc[r] = "generate_response" /\ pc'[r] # pc[r] /\ ErrorSet(r)) =>
              /\ calls'[r] = calls[r]
              /\ st'[r].response.t = "str"
              /\ st'[r].response.v = <<"D", "e", "s", "c", "u", "l", "p", "e", ",", " ", "o",
                  "c", "o", "r", "r", "e", "u", " ", "u", "m", " ", "e", "r", "r", "o", " ",
                  "n", "o", " ", "p", "a", "s", "s", "o", " ", "'">>
                                         \o ErrorOf(r).obj.node \o <<"'", ":", " ">>
                                         \o ErrorOf(r).obj.message
              /\ ~EndsWith(st'[r].response.v, get_disclaimer)
              /\ st'[r].error = st[r].error]_vars

\* A run has ended with the apology for an error whose message holds two
\* critical keywords, so should_include_disclaimer is true of it.
C28_Witness ==
    \E r \in DOMAIN pc :
        /\ pc[r] = "END"
        /\ ErrorSet(r) /\ ~ErrorNames(r, "generate_response")
        /\ IsApology(r)
        /\ should_include_disclaimer(ErrorOf(r).obj.message)

----------------------------------------------------------------------------
\* The keys of the state of run r that the step adds or gives a new value.
Written(r) == {k \in DOMAIN st'[r] : k \notin DOMAIN st[r] \/ st'[r][k] # st[r][k]}

\* The keys each stage may write.
Owned(node) ==
    CASE node = "embed_query"        -> {"query_embedding", "error"}
      [] node = "retrieve_documents" -> {"retrieved_docs", "context", "error"}
      [] node = "generate_response"  -> {"response", "error"}

(* C29: a stage adds or changes only its own keys and error: embed_query    *)
(* query_embedding, retrieve_documents retrieved_docs and context,          *)
(* generate_response response.  No key is removed, query and filters keep   *)
(* their values, and query_embedding, retrieved_docs and context keep the   *)
(* values the earlier stage gave them.                                      *)
C29_StagesWriteOwnKeys ==
    [][\A r \in DOMAIN pc : pc'[r] # pc[r] =>
          /\ Written(r) \subseteq Owned(pc[r])
          /\ DOMAIN st[r] \subseteq DOMAIN st'[r]
          /\ st'[r].query = st[r].query
          /\ ("filters" \in DOMAIN st'[r]) => ("filters" \in DOMAIN st[r] /\ st'[r].filters = st[r].filters)
          /\ pc[r] # "embed_query" =>
                Get(st'[r], "query_embedding", "absent") = Get(st[r], "query_embedding", "absent")
          /\ pc[r] = "generate_response" =>
                /\ st'[r].retrieved_docs = st[r].retrieved_docs
                /\ st'[r].context = st[r].context]_vars

\* A run that was handed the query alone has ended with the output of all
\* three stages in its state.
C29_Witness ==
    \E r \in DOMAIN pc :
        /\ pc[r] = "END"
        /\ DOMAIN st[r] = {"query", "query_embedding", "retrieved_docs", "context",
                            "response", "error"}
        /\ st[r].query_embedding = Bundle
        /\ Len(st[r].retrieved_docs.v) = 2
        /\ st[r].context.v # <<>>
        /\ st[r].response.t = "str"
        /\ st[r].error = None

============================================================================
